---------------------------- MODULE Spec2Model ----------------------------
(***************************************************************************)
(* A model of the malbuch image pipeline: the k-means colour quantizer,    *)
(* the palette orderer (extractPalette), hex colour formatting and its     *)
(* parsing by the page assembler, the Sobel line-art extractor, the resize *)
(* step, the page assembler, the generate route and the upload form.       *)
(*                                                                         *)
(* Each component has its own specifications (SpecQuantize, SpecPalette,   *)
(* SpecHex, SpecLineArt, SpecRoute, SpecForm, ...); the variables of the   *)
(* components a specification does not run stay at their idle values.      *)
(*                                                                         *)
(* Indices are 1-based here and 0-based in the source.                     *)
(***************************************************************************)
EXTENDS Integers, Sequences, FiniteSets, TLC

VARIABLES
    \* ---- quantizer: photoToPaintByNumbers / quantizeColors (part_003)
    qpc,          \* position in photoToPaintByNumbers
    data,         \* raw interleaved samples of the decoded raster
    info,         \* [width, height, channels] of the decoded raster
    numColors,    \* requested number of colours K
    pixels,       \* the [r,g,b] triples built from data
    sampled,      \* the pixels used for centroid fitting
    centroids,    \* the centroid set
    iter,         \* k-means iterations done
    palette,      \* the value quantizeColors returned
    mappedData,   \* the output raster, 3 bytes per pixel
    hexPalette,   \* the palette as hex strings
    seeds,        \* the centroids as first drawn, where a run records them
    \* ---- palette orderer: extractPalette (part_002)
    ppc,          \* position in extractPalette
    image,        \* [width, height, px]: px[y*width + x + 1] is the RGBA int
    pNumColors,   \* requested number of entries N
    py, px,       \* scan position
    colorCounts,  \* the Map, as its entries <<hex, count>> in insertion order
    sorted,       \* the result array
    \* ---- hex formatting and parsing (rgbToHex, generateBook)
    hpc, hrgb, hhex, hparsed,
    \* ---- line-art extractor: processImageToColoringPage (part_001)
    lpc,          \* position in img.onload
    lw, lh,       \* canvas width and height
    limg,         \* the picture as drawn on the canvas, RGBA
    ldata,        \* imageData.data, RGBA
    edgeData,     \* the Uint8Array sobelEdgeDetection returned
    outputData,   \* outputData.data, RGBA
    \* ---- generate route: POST (route.ts) and generateBook
    rpc, rname, rtype, rphotos, ri, rpages, rstatus, rdoc,
    \* ---- grayscale conversion applied to a raster and to its result
    gpc, graw, gonce, gtwice,
    \* ---- the resize step of processImageToColoringPage / photoToColoringPage
    zpc,          \* position in the resize step
    zimg,         \* [width, height] of the decoded picture
    zw, zh,       \* the locals width and height
    \* ---- page assembler: generateBook (imageProcessor.ts)
    bpc,          \* position in generateBook
    bname,        \* childName
    bpages,       \* the pages argument
    bi,           \* the loop index i
    bdoc,         \* the pages of the document so far
    \* ---- the remap of step 5 applied to a raster and to its result
    mpc, mpalette, mpixels, monce, mtwice,
    \* ---- upload form: Home (page.tsx)
    upc,          \* position of handleGenerate
    uname,        \* name, as its characters
    uphotos,      \* photos
    upreviews,    \* previews
    uloading,     \* loading
    uerror,       \* error
    usent,        \* the bodies of the requests sent to /api/generate
    uevent,       \* the last user action or response handled
    usteps        \* number of user actions handled

qvars == <<qpc, data, info, numColors, pixels, sampled, centroids, iter,
           palette, mappedData, hexPalette, seeds>>
pvars == <<ppc, image, pNumColors, py, px, colorCounts, sorted>>
hvars == <<hpc, hrgb, hhex, hparsed>>
lvars == <<lpc, lw, lh, limg, ldata, edgeData, outputData>>
rvars == <<rpc, rname, rtype, rphotos, ri, rpages, rstatus, rdoc>>
gvars == <<gpc, graw, gonce, gtwice>>
zvars == <<zpc, zimg, zw, zh>>
bvars == <<bpc, bname, bpages, bi, bdoc>>
mvars == <<mpc, mpalette, mpixels, monce, mtwice>>
uvars == <<upc, uname, uphotos, upreviews, uloading, uerror, usent, uevent,
          usteps>>
vars == <<qvars, pvars, hvars, lvars, rvars, gvars, zvars, bvars, mvars,
          uvars>>

qothers == <<pvars, hvars, lvars, rvars, gvars, zvars, bvars, mvars,
            uvars>>
pothers == <<qvars, hvars, lvars, rvars, gvars, zvars, bvars, mvars,
            uvars>>
hothers == <<qvars, pvars, lvars, rvars, gvars, zvars, bvars, mvars,
            uvars>>
lothers == <<qvars, pvars, hvars, rvars, gvars, zvars, bvars, mvars,
            uvars>>
rothers == <<qvars, pvars, hvars, lvars, gvars, zvars, bvars, mvars,
            uvars>>
gothers == <<qvars, pvars, hvars, lvars, rvars, zvars, bvars, mvars,
            uvars>>
zothers == <<qvars, pvars, hvars, lvars, rvars, gvars, bvars, mvars,
            uvars>>
bothers == <<qvars, pvars, hvars, lvars, rvars, gvars, zvars, mvars,
            uvars>>
mothers == <<qvars, pvars, hvars, lvars, rvars, gvars, zvars, bvars,
            uvars>>
uothers == <<qvars, pvars, hvars, lvars, rvars, gvars, zvars, bvars,
            mvars>>

\* ------------------------------------------------------------------------
\* Bounds of the model
\* ------------------------------------------------------------------------
MaxPixels == 3
MaxK == 3
MaxDim == 4
MaxArea == 12
MaxPhotos == 21

\* ------------------------------------------------------------------------
\* Idle values of each component
\* ------------------------------------------------------------------------
QIdle ==
    /\ qpc = "idle" /\ data = <<>> /\ info = [width |-> 0, height |-> 0, channels |-> 3]
    /\ numColors = 0 /\ pixels = <<>> /\ sampled = <<>> /\ centroids = <<>>
    /\ iter = 0 /\ palette = <<>> /\ mappedData = <<>> /\ hexPalette = <<>>
    /\ seeds = <<>>

PIdle ==
    /\ ppc = "idle" /\ image = [width |-> 0, height |-> 0, px |-> <<>>]
    /\ pNumColors = 0 /\ py = 0 /\ px = 0 /\ colorCounts = <<>> /\ sorted = <<>>

HIdle == hpc = "idle" /\ hrgb = <<0, 0, 0>> /\ hhex = <<>> /\ hparsed = <<>>

LIdle ==
    /\ lpc = "idle" /\ lw = 0 /\ lh = 0 /\ limg = <<>> /\ ldata = <<>>
    /\ edgeData = <<>> /\ outputData = <<>>

RIdle ==
    /\ rpc = "idle" /\ rname = "" /\ rtype = "coloring" /\ rphotos = <<>>
    /\ ri = 0 /\ rpages = <<>> /\ rstatus = 0 /\ rdoc = <<>>

GIdle == gpc = "idle" /\ graw = <<>> /\ gonce = <<>> /\ gtwice = <<>>

ZIdle == zpc = "idle" /\ zimg = <<0, 0>> /\ zw = 0 /\ zh = 0

BIdle ==
    /\ bpc = "idle" /\ bname = "" /\ bpages = <<>> /\ bi = 0 /\ bdoc = <<>>

MIdle ==
    /\ mpc = "idle" /\ mpalette = <<>> /\ mpixels = <<>> /\ monce = <<>>
    /\ mtwice = <<>>

\* the form before it is mounted
UIdle ==
    /\ upc = "unmounted" /\ uname = <<>> /\ uphotos = <<>> /\ upreviews = <<>>
    /\ uloading = FALSE /\ uerror = "" /\ usent = <<>>
    /\ uevent = [kind |-> "none"] /\ usteps = 0

\* ------------------------------------------------------------------------
\* Arithmetic of the runtime
\* ------------------------------------------------------------------------
Min(a, b) == IF a < b THEN a ELSE b
Max(a, b) == IF a > b THEN a ELSE b

\* Math.round(n / d) for n >= 0, d > 0: the nearest integer, a half rounded up.
MathRound(n, d) == (2 * n + d) \div (2 * d)

\* Flatten a sequence of sequences.
RECURSIVE Concat(_)
Concat(ss) == IF ss = <<>> THEN <<>> ELSE Head(ss) \o Concat(Tail(ss))

\* ------------------------------------------------------------------------
\* Number arithmetic of the runtime: IEEE 754 doubles of positive value.
\* A double is [m |-> <<l3, l2, l1, l0>>, e |-> exponent]: its 53-bit
\* mantissa is 2^52 + l3 * 2^39 + l2 * 2^26 + l1 * 2^13 + l0, four limbs of
\* 13 bits below the leading 1, and its value is mantissa * 2^e.
\* ------------------------------------------------------------------------
Limb == 2^13

\* the number of bits of n >= 1, n < 2^15
BitLength(n) == CHOOSE k \in 1..15 : 2^(k - 1) <= n /\ n < 2^k

\* mantissa + 1 when up, with the carry into the exponent
RoundUp(l, e, up) ==
    IF ~up THEN [m |-> l, e |-> e]
    ELSE IF l[4] < Limb - 1 THEN [m |-> <<l[1], l[2], l[3], l[4] + 1>>, e |-> e]
    ELSE IF l[3] < Limb - 1 THEN [m |-> <<l[1], l[2], l[3] + 1, 0>>, e |-> e]
    ELSE IF l[2] < Limb - 1 THEN [m |-> <<l[1], l[2] + 1, 0, 0>>, e |-> e]
    ELSE IF l[1] < Limb - 1 THEN [m |-> <<l[1] + 1, 0, 0, 0>>, e |-> e]
    ELSE [m |-> <<0, 0, 0, 0>>, e |-> e + 1]

\* a / b for integers 0 < a, b < 2^15, rounded to nearest, a tie to even:
\* long division of the normalised quotient, limb by limb, then the guard
\* bit and what is left below it
DoubleDivide(a, b) ==
    LET ka == CHOOSE k \in 0..15 :
                  a * 2^k >= b /\ (k = 0 \/ a * 2^(k - 1) < b)
        num == a * 2^ka
        kb == CHOOSE k \in 0..15 :
                  b * 2^(k + 1) > num /\ (k = 0 \/ b * 2^k <= num)
        den == b * 2^kb
        r0 == num - den
        l3 == (r0 * Limb) \div den
        r1 == (r0 * Limb) % den
        l2 == (r1 * Limb) \div den
        r2 == (r1 * Limb) % den
        l1 == (r2 * Limb) \div den
        r3 == (r2 * Limb) % den
        l0 == (r3 * Limb) \div den
        r4 == (r3 * Limb) % den
        guard == (2 * r4) \div den
        sticky == (2 * r4) % den # 0
    IN  RoundUp(<<l3, l2, l1, l0>>, kb - ka - 52,
                guard = 1 /\ (sticky \/ l0 % 2 = 1))

\* s * d for an integer 0 < s < 2^13 and a double d, rounded to nearest, a
\* tie to even: the limbs of the exact product, shifted right to 53 bits
DoubleTimes(s, d) ==
    LET t0 == d.m[4] * s
        t1 == d.m[3] * s + t0 \div Limb
        t2 == d.m[2] * s + t1 \div Limb
        t3 == d.m[1] * s + t2 \div Limb
        top == s + t3 \div Limb
        o0 == t0 % Limb
        o1 == t1 % Limb
        o2 == t2 % Limb
        o3 == t3 % Limb
        drop == BitLength(top) - 1
        D == 2^drop
        up == Limb \div D
        n3 == (top % D) * up + o3 \div D
        n2 == (o3 % D) * up + o2 \div D
        n1 == (o2 % D) * up + o1 \div D
        n0 == (o1 % D) * up + o0 \div D
        guard == IF drop = 0 THEN 0 ELSE (o0 \div 2^(drop - 1)) % 2
        sticky == drop >= 2 /\ o0 % 2^(drop - 1) # 0
    IN  RoundUp(<<n3, n2, n1, n0>>, d.e + drop,
                guard = 1 /\ (sticky \/ n0 % 2 = 1))

\* Math.round(d) for a double d < 2^14: the nearest integer, a half rounded
\* up
MathRoundDouble(d) ==
    LET ib == 53 + d.e
        top == Limb + d.m[1]
    IN  IF ib < 0 THEN 0
        ELSE IF ib = 0 THEN 1
        ELSE IF ib <= 13
             THEN (top \div 2^(14 - ib)) + ((top \div 2^(13 - ib)) % 2)
        ELSE top + d.m[2] \div 2^12

\* ------------------------------------------------------------------------
\* Hex formatting
\* ------------------------------------------------------------------------
\* A string is modelled as the sequence of its characters.
HexDigits == <<"0", "1", "2", "3", "4", "5", "6", "7",
               "8", "9", "a", "b", "c", "d", "e", "f">>

\* Number.prototype.toString(16) of an integer x >= 0.
RECURSIVE ToString16(_)
ToString16(x) ==
    IF x < 16 THEN <<HexDigits[x + 1]>>
    ELSE ToString16(x \div 16) \o <<HexDigits[(x % 16) + 1]>>

\* String.prototype.padStart(n, '0').
RECURSIVE PadStart(_, _)
PadStart(s, n) == IF Len(s) >= n THEN s ELSE PadStart(<<"0">> \o s, n)

\* variant: the channel formatted without padStart
HexByteNoPad(x) == ToString16(x)

\* the channel formatting x.toString(16).padStart(2, '0')
HexByte(x) == PadStart(ToString16(x), 2)

rgbToHex(r, g, b) == <<"#">> \o Concat(<<HexByte(r), HexByte(g), HexByte(b)>>)

\* ------------------------------------------------------------------------
\* Quantizer (part_003)
\* ------------------------------------------------------------------------
SampleBound == 10000
Iterations == 10

QColors == { <<0, 0, 0>>, <<255, 255, 255>>, <<255, 0, 0>> }

\* The raw buffer sharp returns for a raster of the given pixels: channels
\* samples per pixel, the fourth (alpha) opaque.
RawOf(pxs, channels) ==
    Concat([i \in 1..Len(pxs) |->
              IF channels = 4 THEN pxs[i] \o <<255>> ELSE pxs[i]])

\* for (i = 0; i < data.length; i += info.channels) pixels.push([...])
PixelsOf(d, channels) ==
    [k \in 1..((Len(d) + channels - 1) \div channels) |->
        <<d[(k - 1) * channels + 1], d[(k - 1) * channels + 2],
          d[(k - 1) * channels + 3]>>]

\* variant: a distance that leaves the blue channel out
DistSqRedGreen(p, c) ==
    (p[1] - c[1]) * (p[1] - c[1]) + (p[2] - c[2]) * (p[2] - c[2])

\* Squared Euclidean distance.  The source compares Math.sqrt of this sum;
\* sqrt is strictly increasing and exact enough to keep distinct integers
\* below 2^53 distinct, so comparing the sums gives the same order.
DistSq(p, c) ==
    (p[1] - c[1]) * (p[1] - c[1]) + (p[2] - c[2]) * (p[2] - c[2])
      + (p[3] - c[3]) * (p[3] - c[3])

\* larger than every distance: the loop's initial minDist = Infinity
InfDist == 3 * 255 * 255 + 1

\* The loop of findNearestColor from index i on.
RECURSIVE NearestFrom(_, _, _, _, _)
NearestFrom(pixel, pal, i, minDist, minIdx) ==
    IF i > Len(pal) THEN minIdx
    ELSE IF DistSq(pixel, pal[i]) < minDist
         THEN NearestFrom(pixel, pal, i + 1, DistSq(pixel, pal[i]), i)
         ELSE NearestFrom(pixel, pal, i + 1, minDist, minIdx)

\* variant: the comparison dist <= minDist, so that the last of several
\* nearest entries wins
findNearestColorLast(pixel, pal) ==
    CHOOSE i \in 1..Len(pal) :
        \A j \in 1..Len(pal) :
            /\ DistSq(pixel, pal[i]) <= DistSq(pixel, pal[j])
            /\ j > i => DistSq(pixel, pal[j]) > DistSq(pixel, pal[i])

\* findNearestColor: minIdx starts at the first index.
findNearestColor(pixel, pal) == NearestFrom(pixel, pal, 1, InfDist, 1)

\* variant: the step is rounded up
SampleStepCeiling(n) == (n + Min(SampleBound, n) - 1) \div Min(SampleBound, n)

\* const step = floor(length / min(10000, length)); filter(i % step === 0)
SampleStep(n) == n \div Min(SampleBound, n)

SampledOf(pxs) ==
    LET step == SampleStep(Len(pxs))
        kept == SelectSeq([i \in 1..Len(pxs) |-> i],
                          LAMBDA i : (i - 1) % step = 0)
    IN  [k \in 1..Len(kept) |-> pxs[kept[k]]]

RECURSIVE SumChannel(_, _)
SumChannel(cluster, c) ==
    IF cluster = <<>> THEN 0
    ELSE Head(cluster)[c] + SumChannel(Tail(cluster), c)

\* clusters[i]: the sampled pixels whose nearest centroid is i, in order
ClusterOf(smp, cs, i) ==
    SelectSeq(smp, LAMBDA p : findNearestColor(p, cs) = i)

\* variant: the mean is truncated instead of rounded
UpdateCentroidsFloor(smp, cs, k) ==
    [i \in 1..k |->
        LET cluster == ClusterOf(smp, cs, i)
        IN  IF Len(cluster) = 0 THEN cs[i]
            ELSE <<SumChannel(cluster, 1) \div Len(cluster),
                   SumChannel(cluster, 2) \div Len(cluster),
                   SumChannel(cluster, 3) \div Len(cluster)>>]

\* variant: empty clusters are dropped instead of keeping their centroid
UpdateCentroidsDropEmpty(smp, cs, k) ==
    LET keep == SelectSeq([i \in 1..k |-> i],
                          LAMBDA i : ClusterOf(smp, cs, i) # <<>>)
    IN  [n \in 1..Len(keep) |->
           LET cluster == ClusterOf(smp, cs, keep[n])
           IN  <<MathRound(SumChannel(cluster, 1), Len(cluster)),
                 MathRound(SumChannel(cluster, 2), Len(cluster)),
                 MathRound(SumChannel(cluster, 3), Len(cluster))>>]

\* variant: an empty cluster is reseeded with the last sampled pixel
UpdateCentroidsReseed(smp, cs, k) ==
    [i \in 1..k |->
        LET cluster == ClusterOf(smp, cs, i)
        IN  IF Len(cluster) = 0 THEN smp[Len(smp)]
            ELSE <<MathRound(SumChannel(cluster, 1), Len(cluster)),
                   MathRound(SumChannel(cluster, 2), Len(cluster)),
                   MathRound(SumChannel(cluster, 3), Len(cluster))>>]

\* One k-means iteration: clusters has numColors entries; an empty cluster
\* keeps its centroid, any other becomes the rounded mean of its pixels.
UpdateCentroids(smp, cs, k) ==
    [i \in 1..k |->
        LET cluster == ClusterOf(smp, cs, i)
        IN  IF Len(cluster) = 0 THEN cs[i]
            ELSE <<MathRound(SumChannel(cluster, 1), Len(cluster)),
                   MathRound(SumChannel(cluster, 2), Len(cluster)),
                   MathRound(SumChannel(cluster, 3), Len(cluster))>>]

\* variant: the pixel is blended between two palette colours
RemapMean(pxs, pal) ==
    Concat([i \in 1..Len(pxs) |->
              LET a == pal[findNearestColor(pxs[i], pal)]
                  b == pal[Len(pal)]
              IN  <<(a[1] + b[1]) \div 2, (a[2] + b[2]) \div 2,
                    (a[3] + b[3]) \div 2>>])

\* Step 5: every pixel is written as its nearest palette colour.
Remap(pxs, pal) ==
    Concat([i \in 1..Len(pxs) |-> pal[findNearestColor(pxs[i], pal)]])

\* palette.map(([r, g, b]) => `#${...}`)
HexPaletteOf(pal) ==
    [i \in 1..Len(pal) |->
        <<"#">> \o Concat(<<HexByte(pal[i][1]), HexByte(pal[i][2]),
                            HexByte(pal[i][3])>>)]

\* The decoded rasters: width x height >= 1 pixel, 3 or 4 channels.
QInit ==
    /\ qpc = "pixels"
    /\ \E w \in 1..MaxPixels, h \in 1..MaxPixels :
         /\ w * h <= MaxPixels
         /\ \E ch \in {3, 4} :
              /\ info = [width |-> w, height |-> h, channels |-> ch]
              /\ \E pxs \in [1..(w * h) -> QColors] : data = RawOf(pxs, ch)
    /\ numColors \in 1..MaxK
    /\ pixels = <<>> /\ sampled = <<>> /\ centroids = <<>>
    /\ iter = 0 /\ palette = <<>> /\ mappedData = <<>> /\ hexPalette = <<>>
    /\ seeds = <<>>

\* Step 4: build the pixel list from the raw buffer.
QPixels ==
    /\ qpc = "pixels"
    /\ pixels' = PixelsOf(data, info.channels)
    /\ qpc' = "sample"
    /\ UNCHANGED <<data, info, numColors, sampled, centroids, iter, palette,
                   mappedData, hexPalette, seeds>>
    /\ UNCHANGED qothers

\* quantizeColors: the strided sample.
QSample ==
    /\ qpc = "sample"
    /\ sampled' = SampledOf(pixels)
    /\ qpc' = "seed"
    /\ UNCHANGED <<data, info, numColors, pixels, centroids, iter, palette,
                   mappedData, hexPalette, seeds>>
    /\ UNCHANGED qothers

\* quantizeColors: numColors centroids, each sampled[floor(random * length)].
SeedDraw ==
    /\ qpc = "seed"
    /\ \E f \in [1..numColors -> 1..Len(sampled)] :
         centroids' = [i \in 1..numColors |-> sampled[f[i]]]
    /\ iter' = 0
    /\ qpc' = "iterate"
    /\ UNCHANGED <<data, info, numColors, pixels, sampled, palette,
                   mappedData, hexPalette>>
    /\ UNCHANGED qothers

QSeed == SeedDraw /\ UNCHANGED seeds

\* the same step with the draw kept in seeds
QSeedRecorded == SeedDraw /\ seeds' = centroids'

\* quantizeColors: one pass of the loop for (iter = 0; iter < 10; iter++).
QIterate ==
    /\ qpc = "iterate"
    /\ iter < Iterations
    /\ centroids' = UpdateCentroids(sampled, centroids, numColors)
    /\ iter' = iter + 1
    /\ UNCHANGED <<qpc, data, info, numColors, pixels, sampled, palette,
                   mappedData, hexPalette, seeds>>
    /\ UNCHANGED qothers

\* variant: the loop is left as soon as an iteration changes no centroid
QReturnWhenStable ==
    /\ qpc = "iterate"
    /\ \/ iter >= Iterations
       \/ UpdateCentroids(sampled, centroids, numColors) = centroids
    /\ palette' = centroids
    /\ qpc' = "remap"
    /\ UNCHANGED <<data, info, numColors, pixels, sampled, centroids, iter,
                   mappedData, hexPalette, seeds>>
    /\ UNCHANGED qothers

\* quantizeColors: return centroids.
QReturn ==
    /\ qpc = "iterate"
    /\ iter >= Iterations
    /\ palette' = centroids
    /\ qpc' = "remap"
    /\ UNCHANGED <<data, info, numColors, pixels, sampled, centroids, iter,
                   mappedData, hexPalette, seeds>>
    /\ UNCHANGED qothers

\* Step 5: Buffer.alloc(width * height * 3), then the remap loop.
QRemap ==
    /\ qpc = "remap"
    /\ LET written == Remap(pixels, palette)
           size == info.width * info.height * 3
       IN  mappedData' = [k \in 1..size |->
                            IF k <= Len(written) THEN written[k] ELSE 0]
    /\ qpc' = "hex"
    /\ UNCHANGED <<data, info, numColors, pixels, sampled, centroids, iter,
                   palette, hexPalette, seeds>>
    /\ UNCHANGED qothers

\* Convert palette to hex and return.
QHex ==
    /\ qpc = "hex"
    /\ hexPalette' = HexPaletteOf(palette)
    /\ qpc' = "done"
    /\ UNCHANGED <<data, info, numColors, pixels, sampled, centroids, iter,
                   palette, mappedData, seeds>>
    /\ UNCHANGED qothers

QNext ==
    \/ QPixels
    \/ QSample
    \/ QSeed
    \/ QIterate
    \/ QReturn
    \/ QRemap
    \/ QHex

InitQuantize == QInit /\ PIdle /\ HIdle /\ LIdle /\ RIdle
    /\ GIdle /\ ZIdle /\ BIdle
    /\ MIdle /\ UIdle
SpecQuantize == InitQuantize /\ [][QNext]_vars

\* The decoded raster of a 2 x 2 picture with one black, one white, one red
\* and one blue pixel in any order, 3 channels, and K = 4.
FourColours == {<<0, 0, 0>>, <<255, 255, 255>>, <<255, 0, 0>>, <<0, 0, 255>>}

QInitFourColours ==
    /\ qpc = "pixels"
    /\ info = [width |-> 2, height |-> 2, channels |-> 3]
    /\ \E pxs \in [1..4 -> FourColours] :
         /\ \A i, j \in 1..4 : i # j => pxs[i] # pxs[j]
         /\ data = RawOf(pxs, 3)
    /\ numColors = 4
    /\ pixels = <<>> /\ sampled = <<>> /\ centroids = <<>>
    /\ iter = 0 /\ palette = <<>> /\ mappedData = <<>> /\ hexPalette = <<>>
    /\ seeds = <<>>

\* photoToPaintByNumbers with the draw of the centroids recorded
QNextRecorded ==
    \/ QPixels
    \/ QSample
    \/ QSeedRecorded
    \/ QIterate
    \/ QReturn
    \/ QRemap
    \/ QHex

InitFourColours == QInitFourColours /\ PIdle /\ HIdle /\ LIdle /\ RIdle
    /\ GIdle /\ ZIdle /\ BIdle
    /\ MIdle /\ UIdle
SpecFourColours == InitFourColours /\ [][QNextRecorded]_vars

\* Rasters of one row and 3 channels whose pixel counts lie below, at and
\* above the sampling bound and its multiples, up to the 2480 x 3508 box
\* of the resize; sample j of the buffer is (j - 1) % 251.
SampleSizes ==
    (1..40) \cup {9999, 10000, 10001, 12345, 15000, 19999, 20000, 20001,
                  25000, 29999, 30000, 30001}

QInitSizes ==
    /\ qpc = "pixels"
    /\ \E n \in SampleSizes :
         /\ info = [width |-> n, height |-> 1, channels |-> 3]
         /\ data = [j \in 1..(3 * n) |-> (j - 1) % 251]
    /\ numColors = 1
    /\ pixels = <<>> /\ sampled = <<>> /\ centroids = <<>>
    /\ iter = 0 /\ palette = <<>> /\ mappedData = <<>> /\ hexPalette = <<>>
    /\ seeds = <<>>

\* the pixel list and the sample of quantizeColors
QNextSample ==
    \/ QPixels
    \/ QSample

InitSample == QInitSizes /\ PIdle /\ HIdle /\ LIdle /\ RIdle
    /\ GIdle /\ ZIdle /\ BIdle
    /\ MIdle /\ UIdle
SpecSample == InitSample /\ [][QNextSample]_vars

\* ------------------------------------------------------------------------
\* The remap of photoToPaintByNumbers (step 5) applied to a pixel list and
\* then to the pixels of its own output, with the same palette.
\* ------------------------------------------------------------------------
\* three reds one apart: <<1, 0, 0>> is equally far from the other two
MColors == { <<0, 0, 0>>, <<1, 0, 0>>, <<2, 0, 0>> }

MInit ==
    /\ mpc = "start"
    /\ \E k \in 1..MaxK : mpalette \in [1..k -> MColors]
    /\ \E n \in 1..MaxPixels : mpixels \in [1..n -> MColors]
    /\ monce = <<>>
    /\ mtwice = <<>>

MRemap ==
    /\ mpc = "start"
    /\ monce' = Remap(mpixels, mpalette)
    /\ mpc' = "once"
    /\ UNCHANGED <<mpalette, mpixels, mtwice>>
    /\ UNCHANGED mothers

MRemapAgain ==
    /\ mpc = "once"
    /\ mtwice' = Remap(PixelsOf(monce, 3), mpalette)
    /\ mpc' = "twice"
    /\ UNCHANGED <<mpalette, mpixels, monce>>
    /\ UNCHANGED mothers

MNext ==
    \/ MRemap
    \/ MRemapAgain

InitRemap == MInit /\ QIdle /\ PIdle /\ HIdle /\ LIdle /\ RIdle
    /\ GIdle /\ ZIdle /\ BIdle
    /\ UIdle
SpecRemap == InitRemap /\ [][MNext]_vars

\* ------------------------------------------------------------------------
\* Palette orderer: extractPalette (part_002)
\* ------------------------------------------------------------------------
\* The colour int 0xRRGGBBAA of a pixel, as the 32-bit signed value that
\* the operator >> makes of what getPixelColor returns (ToInt32: a red
\* channel of 128 or more gives a negative value).
RGBA(r, g, b, a) ==
    (((IF r >= 128 THEN r - 256 ELSE r) * 256 + g) * 256 + b) * 256 + a

\* (color >> n) & 0xFF: the arithmetic shift rounds down, the mask keeps the
\* low eight bits of the two's complement value.
ShiftAndMask(color, n) == (color \div (2 ^ n)) % 256

\* floor(sqrt(n)) for an integer n >= 0
ISqrt(n) == CHOOSE k \in 0..n : k * k <= n /\ (k + 1) * (k + 1) > n

\* step = max(1, floor(sqrt(width * height / 1000)))
ScanStep(w, h) == Max(1, ISqrt((w * h) \div 1000))

getPixelColor(img, x, y) == img.px[y * img.width + x + 1]

\* colorCounts.set(hex, (colorCounts.get(hex) || 0) + 1): an existing key
\* keeps its place in the Map's insertion order, a new key goes last.
Tally(counts, hex) ==
    IF \E i \in 1..Len(counts) : counts[i][1] = hex
    THEN [i \in 1..Len(counts) |->
            IF counts[i][1] = hex THEN <<hex, counts[i][2] + 1>> ELSE counts[i]]
    ELSE Append(counts, <<hex, 1>>)

\* variant: an entry goes in front of the entries of equal count
RECURSIVE InsertDescBeforeTies(_, _)
InsertDescBeforeTies(lst, e) ==
    IF lst = <<>> THEN <<e>>
    ELSE IF e[2] - Head(lst)[2] >= 0 THEN <<e>> \o lst
         ELSE <<Head(lst)>> \o InsertDescBeforeTies(Tail(lst), e)

\* Insert e into a list sorted by descending count, behind the entries that
\* do not compare greater than it: Array.prototype.sort is stable.
RECURSIVE InsertDesc(_, _)
InsertDesc(lst, e) ==
    IF lst = <<>> THEN <<e>>
    ELSE IF e[2] - Head(lst)[2] > 0 THEN <<e>> \o lst
         ELSE <<Head(lst)>> \o InsertDesc(Tail(lst), e)

\* variant: the comparator a[1] - b[1], ascending counts
RECURSIVE InsertAsc(_, _)
InsertAsc(lst, e) ==
    IF lst = <<>> THEN <<e>>
    ELSE IF Head(lst)[2] - e[2] > 0 THEN <<e>> \o lst
         ELSE <<Head(lst)>> \o InsertAsc(Tail(lst), e)

RECURSIVE SortAsc(_)
SortAsc(entries) ==
    IF entries = <<>> THEN <<>>
    ELSE InsertAsc(SortAsc(SubSeq(entries, 1, Len(entries) - 1)),
                   entries[Len(entries)])

\* .sort((a, b) => b[1] - a[1]): the entries by descending count, equal
\* counts in their original order.
RECURSIVE SortByCountDesc(_)
SortByCountDesc(entries) ==
    IF entries = <<>> THEN <<>>
    ELSE InsertDesc(SortByCountDesc(SubSeq(entries, 1, Len(entries) - 1)),
                    entries[Len(entries)])

\* variant: no slice
SliceNone(lst, n) == lst

\* .slice(0, n) for n >= 0
Slice0(lst, n) == SubSeq(lst, 1, Min(n, Len(lst)))

\* Array.from(colorCounts.entries()).sort(...).slice(0, numColors).map(hex)
TopColors(counts, n) ==
    LET top == Slice0(SortByCountDesc(counts), n)
    IN  [i \in 1..Len(top) |-> top[i][1]]

\* the fallback palette of extractPalette
Defaults ==
    << <<"#", "F", "F", "6", "B", "6", "B">>,
       <<"#", "4", "E", "C", "D", "C", "4">>,
       <<"#", "4", "5", "B", "7", "D", "1">>,
       <<"#", "9", "6", "C", "E", "B", "4">>,
       <<"#", "F", "F", "E", "A", "A", "7">>,
       <<"#", "D", "D", "A", "0", "D", "D">>,
       <<"#", "9", "8", "D", "8", "C", "8">>,
       <<"#", "F", "7", "D", "C", "6", "F">> >>

\* variant: always the first fallback colour
PadEntryFirst(lst) == Defaults[1]

\* defaults[sorted.length % defaults.length]
PadEntry(lst) == Defaults[(Len(lst) % Len(Defaults)) + 1]

MaxN == 10

PColors == { RGBA(255, 0, 0, 255), RGBA(10, 160, 5, 255), RGBA(0, 0, 9, 255) }

\* The rasters handed to extractPalette; a raster without pixels is the
\* degenerate case in which no colour is observed.
PInit ==
    /\ ppc = "scan"
    /\ \E w \in 0..MaxPixels, h \in 0..MaxPixels :
         /\ w * h <= MaxPixels
         /\ \E p \in [1..(w * h) -> PColors] :
              image = [width |-> w, height |-> h, px |-> p]
    /\ pNumColors \in 0..MaxN
    /\ py = 0 /\ px = 0
    /\ colorCounts = <<>>
    /\ sorted = <<>>

\* One pass of the inner loop body: tally the pixel at (px, py), then x += step;
\* at the end of a row, y += step and x = 0.
PScan ==
    /\ ppc = "scan"
    /\ py < image.height /\ px < image.width
    /\ LET color == getPixelColor(image, px, py)
           r == ShiftAndMask(color, 24)
           g == ShiftAndMask(color, 16)
           b == ShiftAndMask(color, 8)
           step == ScanStep(image.width, image.height)
       IN  /\ colorCounts' = Tally(colorCounts, rgbToHex(r, g, b))
           /\ IF px + step < image.width
              THEN px' = px + step /\ py' = py
              ELSE px' = 0 /\ py' = py + step
    /\ UNCHANGED <<ppc, image, pNumColors, sorted>>
    /\ UNCHANGED pothers

\* The loops are over: sort by frequency and take the top colours.
PSort ==
    /\ ppc = "scan"
    /\ ~(py < image.height /\ px < image.width)
    /\ sorted' = TopColors(colorCounts, pNumColors)
    /\ ppc' = "pad"
    /\ UNCHANGED <<image, pNumColors, py, px, colorCounts>>
    /\ UNCHANGED pothers

\* One pass of while (sorted.length < numColors) sorted.push(...).
PPad ==
    /\ ppc = "pad"
    /\ Len(sorted) < pNumColors
    /\ sorted' = Append(sorted, PadEntry(sorted))
    /\ UNCHANGED <<ppc, image, pNumColors, py, px, colorCounts>>
    /\ UNCHANGED pothers

\* return sorted
PReturn ==
    /\ ppc = "pad"
    /\ ~(Len(sorted) < pNumColors)
    /\ ppc' = "done"
    /\ UNCHANGED <<image, pNumColors, py, px, colorCounts, sorted>>
    /\ UNCHANGED pothers

PNext ==
    \/ PScan
    \/ PSort
    \/ PPad
    \/ PReturn

InitPalette == PInit /\ QIdle /\ HIdle /\ LIdle /\ RIdle
    /\ GIdle /\ ZIdle /\ BIdle
    /\ MIdle /\ UIdle
SpecPalette == InitPalette /\ [][PNext]_vars

\* Rasters of 4000 pixels, for which the scan step is 2: the pixels the scan
\* visits alternate between two colours, first before second, in equal
\* number; every pixel it skips has the second colour.
WideShapes == { <<4000, 1>>, <<1, 4000>>, <<80, 50>> }

WideImage(w, h, first, second) ==
    [width |-> w, height |-> h,
     px |-> [k \in 1..(w * h) |->
               LET x == (k - 1) % w
                   y == (k - 1) \div w
               IN  IF x % 2 = 0 /\ y % 2 = 0
                      /\ ((x \div 2) + (y \div 2)) % 2 = 0
                   THEN first ELSE second]]

PInitWide ==
    /\ ppc = "scan"
    /\ \E s \in WideShapes : \E first, second \in PColors :
         /\ first # second
         /\ image = WideImage(s[1], s[2], first, second)
    /\ pNumColors = 2
    /\ py = 0 /\ px = 0
    /\ colorCounts = <<>>
    /\ sorted = <<>>

\* extractPalette on the small rasters and on the rasters of 4000 pixels
InitStrided == (PInit \/ PInitWide) /\ QIdle /\ HIdle /\ LIdle /\ RIdle
    /\ GIdle /\ ZIdle /\ BIdle
    /\ MIdle /\ UIdle
SpecStrided == InitStrided /\ [][PNext]_vars

\* ------------------------------------------------------------------------
\* Hex formatting and its parsing by the page assembler (generateBook)
\* ------------------------------------------------------------------------
UpperHexDigits == <<"0", "1", "2", "3", "4", "5", "6", "7",
                    "8", "9", "A", "B", "C", "D", "E", "F">>

\* the value of a character as a hexadecimal digit of either case, -1 if none
DigitValue(ch) ==
    IF \E v \in 1..16 : HexDigits[v] = ch \/ UpperHexDigits[v] = ch
    THEN (CHOOSE v \in 1..16 : HexDigits[v] = ch \/ UpperHexDigits[v] = ch) - 1
    ELSE -1

\* parseInt(str, 16): the value of the longest prefix of hexadecimal digits,
\* NaN (here -1) when the string does not start with one.
RECURSIVE ParseDigits(_, _)
ParseDigits(str, acc) ==
    IF str = <<>> \/ DigitValue(Head(str)) < 0 THEN acc
    ELSE ParseDigits(Tail(str), acc * 16 + DigitValue(Head(str)))

ParseInt16(str) ==
    IF str = <<>> \/ DigitValue(Head(str)) < 0 THEN -1
    ELSE ParseDigits(str, 0)

\* String.prototype.slice(a, b) for 0 <= a <= b
StrSlice(str, a, b) == SubSeq(str, a + 1, Min(b, Len(str)))

\* generateBook: r, g, b = parseInt(color.slice(1, 3) / (3, 5) / (5, 7), 16)
ParseHexColor(color) ==
    <<ParseInt16(StrSlice(color, 1, 3)), ParseInt16(StrSlice(color, 3, 5)),
      ParseInt16(StrSlice(color, 5, 7))>>

\* channel values around the one- and two-digit and the letter boundaries
HexEdge == {0, 9, 10, 15, 16, 255}

\* One channel takes every value 0..255, the other two the boundary values.
HInit ==
    /\ hpc = "format"
    /\ \E c \in 1..3 : \E v \in 0..255 : \E e1 \in HexEdge : \E e2 \in HexEdge :
         hrgb = [k \in 1..3 |-> IF k = c THEN v
                                 ELSE IF k = ((c % 3) + 1) THEN e1 ELSE e2]
    /\ hhex = <<>>
    /\ hparsed = <<>>

\* rgbToHex(r, g, b)
HFormat ==
    /\ hpc = "format"
    /\ hhex' = rgbToHex(hrgb[1], hrgb[2], hrgb[3])
    /\ hpc' = "parse"
    /\ UNCHANGED <<hrgb, hparsed>>
    /\ UNCHANGED hothers

\* generateBook parses the swatch colour
HParse ==
    /\ hpc = "parse"
    /\ hparsed' = ParseHexColor(hhex)
    /\ hpc' = "parsed"
    /\ UNCHANGED <<hrgb, hhex>>
    /\ UNCHANGED hothers

HNext ==
    \/ HFormat
    \/ HParse

InitHex == HInit /\ QIdle /\ PIdle /\ LIdle /\ RIdle
    /\ GIdle /\ ZIdle /\ BIdle
    /\ MIdle /\ UIdle
SpecHex == InitHex /\ [][HNext]_vars

\* ------------------------------------------------------------------------
\* Line-art extractor: processImageToColoringPage (part_001)
\* ------------------------------------------------------------------------
\* n / d rounded to the nearest integer, a half to the even neighbour, and
\* clamped to 0..255: the conversion of a store into a Uint8ClampedArray.
ToUint8Clamp(n, d) ==
    LET q == n \div d
        r == n % d
        v == IF 2 * r < d THEN q
             ELSE IF 2 * r > d THEN q + 1
             ELSE IF q % 2 = 0 THEN q ELSE q + 1
    IN  Max(0, Min(255, v))

\* variant: a blue weight of 0.144, so that the weights sum to 1.03
GrayOfHeavyBlue(r, g, b) == ToUint8Clamp(299 * r + 587 * g + 144 * b, 1000)

\* gray = 0.299 * R + 0.587 * G + 0.114 * B, stored into the clamped array.
\* The weights are taken as exact thousandths; the double evaluation agrees
\* except on some sums that end in exactly one half, which the colours of
\* LPairs avoid.
GrayOf(r, g, b) == ToUint8Clamp(299 * r + 587 * g + 114 * b, 1000)

\* the loop "Convert to grayscale": R, G, B of every pixel become its gray,
\* alpha stays.
ToGrayscale(d) ==
    [k \in 1..Len(d) |->
        LET base == ((k - 1) \div 4) * 4
        IN  IF (k - 1) % 4 = 3 THEN d[k]
            ELSE GrayOf(d[base + 1], d[base + 2], d[base + 3])]

\* variant: a horizontal kernel whose weights do not sum to zero
sobelXTypo == <<-1, 0, 1, -2, 0, 2, -1, 0, 2>>

sobelX == <<-1, 0, 1, -2, 0, 2, -1, 0, 1>>
sobelY == <<-1, -2, -1, 0, 0, 0, 1, 2, 1>>
Threshold == 30
Amplify == 3

\* data[((y + ky) * width + (x + kx)) * 4]; for the pixels the loops visit
\* the index is always inside the array.
GrayAt(d, w, x, y) ==
    LET idx == (y * w + x) * 4
    IN  IF idx + 1 \in DOMAIN d THEN d[idx + 1] ELSE 0

Offsets == {-1, 0, 1}

RECURSIVE SumOver(_, _)
SumOver(S, f) ==
    IF S = {} THEN 0
    ELSE LET e == CHOOSE e \in S : TRUE IN f[e] + SumOver(S \ {e}, f)

\* gx or gy at (x, y): the 3x3 kernel applied to the gray channel
Gradient(d, w, x, y, kernel) ==
    SumOver(Offsets \X Offsets,
            [o \in Offsets \X Offsets |->
               GrayAt(d, w, x + o[2], y + o[1])
                 * kernel[(o[1] + 1) * 3 + (o[2] + 1) + 1]])

\* the largest k <= cap with k * k <= n
SqrtCapped(n, cap) == CHOOSE k \in 0..cap :
    /\ k * k <= n
    /\ (k = cap \/ (k + 1) * (k + 1) > n)

\* variant: the amplified magnitude stored without the min(255, ...), so
\* that the Uint8Array keeps its low eight bits
EdgeValNoMin(gx, gy) ==
    LET sq == gx * gx + gy * gy
    IN  IF sq > Threshold * Threshold
        THEN SqrtCapped(Amplify * Amplify * sq, 4095) % 256
        ELSE 0

\* edgeVal as stored into the Uint8Array, which drops the fraction:
\* magnitude > threshold ? min(255, magnitude * amplify) : 0 with
\* magnitude = sqrt(gx * gx + gy * gy)
EdgeVal(gx, gy) ==
    LET sq == gx * gx + gy * gy
    IN  IF sq > Threshold * Threshold
        THEN SqrtCapped(Amplify * Amplify * sq, 255)
        ELSE 0

\* variant: the inner loop starting at x = 0
VisitedFromColumn0(x, y, w, h) == y >= 1 /\ y < h - 1 /\ x >= 0 /\ x < w - 1

\* the pixels the loops of sobelEdgeDetection visit:
\* for (y = 1; y < height - 1; y++) for (x = 1; x < width - 1; x++)
Visited(x, y, w, h) == y >= 1 /\ y < h - 1 /\ x >= 1 /\ x < w - 1

\* sobelEdgeDetection: a zero-filled Uint8Array of width * height entries,
\* written at the visited pixels.
sobelEdgeDetection(d, w, h) ==
    [k \in 1..(w * h) |->
        LET x == (k - 1) % w
            y == (k - 1) \div w
        IN  IF Visited(x, y, w, h)
            THEN EdgeVal(Gradient(d, w, x, y, sobelX),
                         Gradient(d, w, x, y, sobelY))
            ELSE 0]

\* the loop "Create output image data": val = 255 - edgeData[i] in R, G, B,
\* alpha 255.
InvertToOutput(edges) ==
    [k \in 1..(4 * Len(edges)) |->
        IF (k - 1) % 4 = 3 THEN 255 ELSE 255 - edges[((k - 1) \div 4) + 1]]

\* pairs of a background and a foreground colour of the input pictures
LPairs == { << <<128, 128, 128>>, <<138, 138, 138>> >>,
            << <<255, 255, 255>>, <<0, 0, 0>> >>,
            << <<200, 30, 60>>, <<20, 180, 90>> >> }

\* The canvas after drawImage and getImageData: a picture of lw x lh opaque
\* pixels, each the background or the foreground colour of a pair.
LInit ==
    /\ lpc = "gray"
    /\ lw \in 1..MaxDim /\ lh \in 1..MaxDim
    /\ lw * lh <= MaxArea
    /\ \E pair \in LPairs : \E mask \in [1..(lw * lh) -> {1, 2}] :
         limg = Concat([k \in 1..(lw * lh) |-> pair[mask[k]] \o <<255>>])
    /\ ldata = limg
    /\ edgeData = <<>>
    /\ outputData = <<>>

\* Convert to grayscale, in place
LGray ==
    /\ lpc = "gray"
    /\ ldata' = ToGrayscale(ldata)
    /\ lpc' = "sobel"
    /\ UNCHANGED <<lw, lh, limg, edgeData, outputData>>
    /\ UNCHANGED lothers

\* Apply edge detection
LSobel ==
    /\ lpc = "sobel"
    /\ edgeData' = sobelEdgeDetection(ldata, lw, lh)
    /\ lpc' = "invert"
    /\ UNCHANGED <<lw, lh, limg, ldata, outputData>>
    /\ UNCHANGED lothers

\* Create output image data and put it on the canvas
LInvert ==
    /\ lpc = "invert"
    /\ outputData' = InvertToOutput(edgeData)
    /\ lpc' = "done"
    /\ UNCHANGED <<lw, lh, limg, ldata, edgeData>>
    /\ UNCHANGED lothers

LNext ==
    \/ LGray
    \/ LSobel
    \/ LInvert

InitLineArt == LInit /\ QIdle /\ PIdle /\ HIdle /\ RIdle
    /\ GIdle /\ ZIdle /\ BIdle
    /\ MIdle /\ UIdle
SpecLineArt == InitLineArt /\ [][LNext]_vars

\* The canvas of a 3 x 3 picture of opaque grays of three levels: its one
\* interior pixel has gradients on both sides of the threshold.
LGrayLevels == { <<0, 1, 15>>, <<0, 7, 30>> }

LInitGrays ==
    /\ lpc = "gray"
    /\ lw = 3 /\ lh = 3
    /\ \E levels \in LGrayLevels : \E mask \in [1..9 -> 1..3] :
         limg = Concat([k \in 1..9 |->
                   <<levels[mask[k]], levels[mask[k]], levels[mask[k]], 255>>])
    /\ ldata = limg
    /\ edgeData = <<>>
    /\ outputData = <<>>

InitEdge == LInitGrays /\ QIdle /\ PIdle /\ HIdle /\ RIdle
    /\ GIdle /\ ZIdle /\ BIdle
    /\ MIdle /\ UIdle
SpecEdge == InitEdge /\ [][LNext]_vars

\* ------------------------------------------------------------------------
\* Grayscale conversion applied twice: the loop "Convert to grayscale" run
\* on a raster and then on its own result
\* ------------------------------------------------------------------------
GSamples == {0, 1, 127, 128, 200, 254, 255}

\* one RGBA pixel of the canvas, transparent or opaque
GInit ==
    /\ gpc = "raw"
    /\ \E r \in GSamples, g \in GSamples, b \in GSamples, a \in {0, 255} :
         graw = <<r, g, b, a>>
    /\ gonce = <<>>
    /\ gtwice = <<>>

GConvert ==
    /\ gpc = "raw"
    /\ gonce' = ToGrayscale(graw)
    /\ gpc' = "once"
    /\ UNCHANGED <<graw, gtwice>>
    /\ UNCHANGED gothers

GConvertAgain ==
    /\ gpc = "once"
    /\ gtwice' = ToGrayscale(gonce)
    /\ gpc' = "twice"
    /\ UNCHANGED <<graw, gonce>>
    /\ UNCHANGED gothers

GNext ==
    \/ GConvert
    \/ GConvertAgain

InitGray == GInit /\ QIdle /\ PIdle /\ HIdle /\ LIdle /\ RIdle
    /\ ZIdle /\ BIdle
    /\ MIdle /\ UIdle
SpecGray == InitGray /\ [][GNext]_vars

\* ------------------------------------------------------------------------
\* The resize step of processImageToColoringPage (part_001) and of
\* photoToColoringPage (part_002)
\* ------------------------------------------------------------------------
maxDim == 800

\* variant: resizing only when both sides exceed maxDim
ResizeWhenBothOver(width, height) ==
    IF width > maxDim /\ height > maxDim
    THEN LET scale == DoubleDivide(maxDim, Max(width, height))
         IN  <<MathRoundDouble(DoubleTimes(width, scale)),
               MathRoundDouble(DoubleTimes(height, scale))>>
    ELSE <<width, height>>

\* if (width > maxDim || height > maxDim) {
\*   scale = maxDim / Math.max(width, height);
\*   width = Math.round(width * scale); height = Math.round(height * scale) }
Resize(width, height) ==
    IF width > maxDim \/ height > maxDim
    THEN LET scale == DoubleDivide(maxDim, Max(width, height))
         IN  <<MathRoundDouble(DoubleTimes(width, scale)),
               MathRoundDouble(DoubleTimes(height, scale))>>
    ELSE <<width, height>>

\* widths and heights of the decoded pictures
ZSides == {1, 2, 3, 145, 551, 799, 800, 801, 802, 1199, 1200, 1599, 1600,
           1601, 1856, 1984, 2000, 2400, 3201, 4000}

ZInit ==
    /\ zpc = "decoded"
    /\ zimg \in ZSides \X ZSides
    /\ zw = 0
    /\ zh = 0

\* let width = img.width; let height = img.height
ZRead ==
    /\ zpc = "decoded"
    /\ zw' = zimg[1]
    /\ zh' = zimg[2]
    /\ zpc' = "resize"
    /\ UNCHANGED zimg
    /\ UNCHANGED zothers

\* the if statement; canvas.width = width, canvas.height = height
ZResize ==
    /\ zpc = "resize"
    /\ zw' = Resize(zw, zh)[1]
    /\ zh' = Resize(zw, zh)[2]
    /\ zpc' = "sized"
    /\ UNCHANGED zimg
    /\ UNCHANGED zothers

ZNext ==
    \/ ZRead
    \/ ZResize

InitResize == ZInit /\ QIdle /\ PIdle /\ HIdle /\ LIdle /\ RIdle
    /\ GIdle /\ BIdle
    /\ MIdle /\ UIdle
SpecResize == InitResize /\ [][ZNext]_vars

\* ------------------------------------------------------------------------
\* Generate route: POST (route.ts), the server-side transforms and
\* generateBook (imageProcessor.ts)
\* ------------------------------------------------------------------------
PhotoLimit == 20
RequestedColors == 12

\* the palette literal of the server-side photoToPaintByNumbers: the same
\* eight strings as the fallback palette of extractPalette
defaultPalette == Defaults

\* photoToPaintByNumbers: palette = defaultPalette.slice(0, numColors)
ServerPalette(n) == Slice0(defaultPalette, n)

BookTypes == {"coloring", "paint-by-numbers", "both", "other"}

\* A request: a name, a type (the form value is cast, not validated) and up
\* to MaxPhotos photos, at most one of which the decoder cannot read.
RInit ==
    /\ rpc = "validate"
    /\ rname \in {"", "Mia"}
    /\ rtype \in BookTypes
    /\ \E n \in 0..MaxPhotos : \E bad \in 0..n :
         rphotos = [k \in 1..n |-> IF k = bad THEN "unreadable" ELSE "image"]
    /\ ri = 0
    /\ rpages = <<>>
    /\ rstatus = 0
    /\ rdoc = <<>>

\* variant: the checks without the limit on the number of photos
RValidateNoLimit ==
    /\ rpc = "validate"
    /\ IF rname = "" \/ Len(rphotos) = 0
       THEN rstatus' = 400 /\ rpc' = "responded"
       ELSE rstatus' = rstatus /\ rpc' = "coloring"
    /\ UNCHANGED <<rname, rtype, rphotos, ri, rpages, rdoc>>
    /\ UNCHANGED rothers

\* the two checks before the loop
RValidate ==
    /\ rpc = "validate"
    /\ IF rname = "" \/ Len(rphotos) = 0
       THEN rstatus' = 400 /\ rpc' = "responded"
       ELSE IF Len(rphotos) > PhotoLimit
            THEN rstatus' = 400 /\ rpc' = "responded"
            ELSE rstatus' = rstatus /\ rpc' = "coloring"
    /\ UNCHANGED <<rname, rtype, rphotos, ri, rpages, rdoc>>
    /\ UNCHANGED rothers

\* loop body, first half: the coloring page of photo ri (0-based); a throw
\* of photoToColoringPage ends in the catch of POST with status 500
RColoring ==
    /\ rpc = "coloring"
    /\ ri < Len(rphotos)
    /\ IF rtype \in {"coloring", "both"}
       THEN IF rphotos[ri + 1] = "unreadable"
            THEN rstatus' = 500 /\ rpc' = "responded" /\ rpages' = rpages
            ELSE /\ rpages' = Append(rpages,
                        [image |-> [photo |-> ri, made |-> "coloring",
                                   valid |-> TRUE],
                         type |-> "coloring", colorPalette |-> <<>>])
                 /\ rstatus' = rstatus /\ rpc' = "paint"
       ELSE rstatus' = rstatus /\ rpc' = "paint" /\ rpages' = rpages
    /\ UNCHANGED <<rname, rtype, rphotos, ri, rdoc>>
    /\ UNCHANGED rothers

\* loop body, second half: photoToPaintByNumbers(buffer, 12), then i++
RPaint ==
    /\ rpc = "paint"
    /\ IF rtype \in {"paint-by-numbers", "both"}
       THEN IF rphotos[ri + 1] = "unreadable"
            THEN rstatus' = 500 /\ rpc' = "responded" /\ rpages' = rpages
                 /\ ri' = ri
            ELSE /\ rpages' = Append(rpages,
                        [image |-> [photo |-> ri, made |-> "paint-by-numbers",
                                   valid |-> TRUE],
                         type |-> "paint-by-numbers",
                         colorPalette |-> ServerPalette(RequestedColors)])
                 /\ rstatus' = rstatus /\ rpc' = "coloring" /\ ri' = ri + 1
       ELSE rstatus' = rstatus /\ rpc' = "coloring" /\ rpages' = rpages
            /\ ri' = ri + 1
    /\ UNCHANGED <<rname, rtype, rphotos, rdoc>>
    /\ UNCHANGED rothers

\* The text generateBook writes where addImage threw.
PlaceholderText == "Bild konnte nicht geladen werden"

\* One pass of the loop "Add each page" for pages[i] (1-based): the page
\* number, the image or, when addImage throws, the placeholder text, and for
\* a paint-by-numbers page its numbered swatches.  image.valid tells whether
\* jsPDF can decode the buffer as the PNG the data URL announces.
BookPage(pages, i) ==
    [kind |-> "page", number |-> i, image |-> pages[i].image,
     embedded |-> pages[i].image.valid,
     text |-> IF pages[i].image.valid THEN "" ELSE PlaceholderText,
     swatches |->
       IF pages[i].type = "paint-by-numbers"
       THEN [k \in 1..Len(pages[i].colorPalette) |->
               [fill |-> ParseHexColor(pages[i].colorPalette[k]),
                label |-> k]]
       ELSE <<>>]

\* the pages of the document around the loop
CoverPage(name) ==
    [kind |-> "cover", number |-> 0, image |-> [photo |-> -1, made |-> "none",
                                                valid |-> TRUE],
     embedded |-> FALSE, text |-> name, swatches |-> <<>>]
BackPage(name) ==
    [kind |-> "back", number |-> 0, image |-> [photo |-> -1, made |-> "none",
                                               valid |-> TRUE],
     embedded |-> FALSE, text |-> name, swatches |-> <<>>]

\* variant: the loop running from the last entry to the first
generateBookLastFirst(name, pages) ==
    <<CoverPage(name)>>
    \o [i \in 1..Len(pages) |-> BookPage(pages, Len(pages) + 1 - i)]
    \o <<BackPage(name)>>

\* generateBook: a cover, one page per entry of pages, and a back cover
generateBook(name, pages) ==
    <<CoverPage(name)>>
    \o [i \in 1..Len(pages) |-> BookPage(pages, i)]
    \o <<BackPage(name)>>

\* after the loop: generate the PDF and answer with it
RGenerate ==
    /\ rpc = "coloring"
    /\ ri >= Len(rphotos)
    /\ rdoc' = generateBook(rname, rpages)
    /\ rstatus' = 200
    /\ rpc' = "responded"
    /\ UNCHANGED <<rname, rtype, rphotos, ri, rpages>>
    /\ UNCHANGED rothers

RNext ==
    \/ RValidate
    \/ RColoring
    \/ RPaint
    \/ RGenerate

InitRoute == RInit /\ QIdle /\ PIdle /\ HIdle /\ LIdle
    /\ GIdle /\ ZIdle /\ BIdle
    /\ MIdle /\ UIdle
SpecRoute == InitRoute /\ [][RNext]_vars

\* ------------------------------------------------------------------------
\* Page assembler called on its own: generateBook (imageProcessor.ts)
\* ------------------------------------------------------------------------
MaxBookPages == 3

\* the palettes of the paint-by-numbers pages handed to generateBook
BPalettes == {ServerPalette(2), ServerPalette(RequestedColors)}

\* The calls of generateBook: up to MaxBookPages entries of either type,
\* each with a buffer jsPDF can decode or not.
BInit ==
    /\ bpc = "called"
    /\ bname = "Mia"
    /\ \E n \in 0..MaxBookPages :
         \E choice \in [1..n -> BOOLEAN \X BPalettes \X BOOLEAN] :
           bpages = [k \in 1..n |->
                       IF choice[k][1]
                       THEN [image |-> [photo |-> k - 1, made |-> "coloring",
                                        valid |-> choice[k][3]],
                             type |-> "coloring", colorPalette |-> <<>>]
                       ELSE [image |-> [photo |-> k - 1,
                                        made |-> "paint-by-numbers",
                                        valid |-> choice[k][3]],
                             type |-> "paint-by-numbers",
                             colorPalette |-> choice[k][2]]]
    /\ bi = 0
    /\ bdoc = <<>>

\* the whole of generateBook: no statement of it throws to the caller, the
\* catch around addImage included
BGenerate ==
    /\ bpc = "called"
    /\ bdoc' = generateBook(bname, bpages)
    /\ bi' = Len(bpages)
    /\ bpc' = "returned"
    /\ UNCHANGED <<bname, bpages>>
    /\ UNCHANGED bothers

BNext == BGenerate

InitBook == BInit /\ QIdle /\ PIdle /\ HIdle /\ LIdle /\ RIdle
    /\ GIdle /\ ZIdle
    /\ MIdle /\ UIdle
SpecBook == InitBook /\ [][BNext]_vars

\* ------------------------------------------------------------------------
\* Upload form: Home (page.tsx)
\* ------------------------------------------------------------------------
MaxEvents == 4
MaxBatch == 19

\* [...photos, ...files].slice(0, 20)
SelectionLimit == 20

\* A File: an identity and a MIME type.
ImageFile(n) == [id |-> n, type |-> "image/png"]
TextFile(n) == [id |-> n, type |-> "text/plain"]

\* The file lists a file dialog or a drop can deliver: one picture, a
\* picture with a text file, and MaxBatch pictures at once.
UBatches ==
    { <<ImageFile(1)>>,
      <<ImageFile(2), TextFile(3)>>,
      [i \in 1..MaxBatch |-> ImageFile(100 + i)] }

\* the values typed into the name field
UNames == { <<>>, <<" ">>, <<"M", "i", "a">>, <<" ", "M", " ">> }

\* String.prototype.trim on the characters of a string
RECURSIVE TrimStart(_)
TrimStart(s) ==
    IF s # <<>> /\ Head(s) = " " THEN TrimStart(Tail(s)) ELSE s

RECURSIVE TrimEnd(_)
TrimEnd(s) ==
    IF s # <<>> /\ s[Len(s)] = " " THEN TrimEnd(SubSeq(s, 1, Len(s) - 1))
    ELSE s

Trim(s) == TrimEnd(TrimStart(s))

\* URL.createObjectURL(f): a blob URL that stands for the file
createObjectURL(f) == [blob |-> f.id]

\* files.filter(f => f.type.startsWith('image/'))
ImagesOf(files) ==
    SelectSeq(files, LAMBDA f : f.type \in {"image/png", "image/jpeg"})

\* prev.filter((_, i) => i !== index), index counted from 0
FilterOut(lst, index) ==
    [i \in 1..(Len(lst) - (IF index < Len(lst) THEN 1 ELSE 0)) |->
        IF i <= index THEN lst[i] ELSE lst[i + 1]]

\* addPhotos, seen being the value of photos in the render whose addPhotos
\* is called: newPhotos = [...photos, ...files].slice(0, 20)
addPhotos(seen, files) == Slice0(seen \o files, SelectionLimit)

\* const [photos, setPhotos] = useState<File[]>([]): photos in the first
\* render
FirstRenderPhotos == <<>>

\* the state of the form after the first render
UInit ==
    /\ upc = "ready"
    /\ uname = <<>>
    /\ uphotos = FirstRenderPhotos
    /\ upreviews = <<>>
    /\ uloading = FALSE
    /\ uerror = ""
    /\ usent = <<>>
    /\ uevent = [kind |-> "mount"]
    /\ usteps = 0

\* handlers run between the synchronous parts of handleGenerate
UserCanAct == upc \in {"ready", "awaiting"} /\ usteps < MaxEvents

\* onChange of the name field: setName(e.target.value)
USetName ==
    /\ UserCanAct
    /\ \E n \in UNames :
         /\ n # uname
         /\ uname' = n
         /\ uevent' = [kind |-> "name"]
    /\ usteps' = usteps + 1
    /\ UNCHANGED <<upc, uphotos, upreviews, uloading, uerror, usent>>
    /\ UNCHANGED uothers

\* handlePhotoSelect: addPhotos of the current render with the chosen files
UPhotoSelect ==
    /\ UserCanAct
    /\ \E files \in UBatches :
         LET newPhotos == addPhotos(uphotos, files)
         IN  /\ uphotos' = newPhotos
             /\ upreviews' = [i \in 1..Len(newPhotos) |->
                                createObjectURL(newPhotos[i])]
             /\ uevent' = [kind |-> "select", files |-> files]
    /\ usteps' = usteps + 1
    /\ UNCHANGED <<upc, uname, uloading, uerror, usent>>
    /\ UNCHANGED uothers

\* handlePhotoDrop: useCallback(..., []) keeps the function of the first
\* render, whose addPhotos reads the photos of the first render.
UPhotoDrop ==
    /\ UserCanAct
    /\ \E dropped \in UBatches :
         LET files == ImagesOf(dropped)
             newPhotos == addPhotos(FirstRenderPhotos, files)
         IN  /\ uphotos' = newPhotos
             /\ upreviews' = [i \in 1..Len(newPhotos) |->
                                createObjectURL(newPhotos[i])]
             /\ uevent' = [kind |-> "drop", files |-> files]
    /\ usteps' = usteps + 1
    /\ UNCHANGED <<upc, uname, uloading, uerror, usent>>
    /\ UNCHANGED uothers

\* removePhoto(idx), idx being the position of a rendered preview
URemovePhoto ==
    /\ UserCanAct
    /\ \E index \in 0..(Len(upreviews) - 1) :
         /\ uphotos' = FilterOut(uphotos, index)
         /\ upreviews' = FilterOut(upreviews, index)
         /\ uevent' = [kind |-> "remove", index |-> index]
    /\ usteps' = usteps + 1
    /\ UNCHANGED <<upc, uname, uloading, uerror, usent>>
    /\ UNCHANGED uothers

\* disabled={loading || !name || photos.length === 0}
ButtonEnabled == ~uloading /\ uname # <<>> /\ Len(uphotos) # 0

\* variant: the request is started without setLoading(true)
UGenerateNoLoading ==
    /\ upc = "ready"
    /\ usteps < MaxEvents
    /\ ButtonEnabled
    /\ IF Trim(uname) = <<>>
       THEN uerror' = "Bitte gib einen Namen ein" /\ UNCHANGED upc
       ELSE uerror' = "" /\ upc' = "sending"
    /\ uevent' = [kind |-> "generate"]
    /\ usteps' = usteps + 1
    /\ UNCHANGED <<uname, uphotos, upreviews, uloading, usent>>
    /\ UNCHANGED uothers

\* handleGenerate up to the try block: the two checks, then
\* setLoading(true) and setError('')
UGenerate ==
    /\ upc = "ready"
    /\ usteps < MaxEvents
    /\ ButtonEnabled
    /\ IF Trim(uname) = <<>>
       THEN /\ uerror' = "Bitte gib einen Namen ein"
            /\ UNCHANGED <<upc, uloading>>
       ELSE IF Len(uphotos) = 0
       THEN /\ uerror' = "Bitte waehle mindestens ein Foto aus"
            /\ UNCHANGED <<upc, uloading>>
       ELSE /\ uloading' = TRUE
            /\ uerror' = ""
            /\ upc' = "sending"
    /\ uevent' = [kind |-> "generate"]
    /\ usteps' = usteps + 1
    /\ UNCHANGED <<uname, uphotos, upreviews, usent>>
    /\ UNCHANGED uothers

\* the FormData is filled and fetch('/api/generate', ...) is called
UFetch ==
    /\ upc = "sending"
    /\ usent' = Append(usent, [name |-> uname, photos |-> uphotos])
    /\ upc' = "awaiting"
    /\ uevent' = [kind |-> "fetch"]
    /\ UNCHANGED <<uname, uphotos, upreviews, uloading, uerror, usteps>>
    /\ UNCHANGED uothers

\* response.ok: the PDF is downloaded; finally setLoading(false)
UResponseOk ==
    /\ upc = "awaiting"
    /\ uloading' = FALSE
    /\ upc' = "ready"
    /\ uevent' = [kind |-> "ok"]
    /\ UNCHANGED <<uname, uphotos, upreviews, uerror, usent, usteps>>
    /\ UNCHANGED uothers

\* the answers of the route that are not ok: the JSON body's error, or no
\* readable body
ErrorAnswers ==
    { [status |-> 400, error |-> "Maximal 20 Fotos erlaubt"],
      [status |-> 500, error |-> ""] }

\* errorData.error || `Server error: ${response.status}`
ErrorText(answer) ==
    IF answer.error # "" THEN answer.error ELSE "Server error: 500"

\* !response.ok: throw, catch: setError(message); finally setLoading(false)
UResponseError ==
    /\ upc = "awaiting"
    /\ \E answer \in ErrorAnswers :
         /\ uerror' = ErrorText(answer)
         /\ uevent' = [kind |-> "error", status |-> answer.status]
    /\ uloading' = FALSE
    /\ upc' = "ready"
    /\ UNCHANGED <<uname, uphotos, upreviews, usent, usteps>>
    /\ UNCHANGED uothers

\* fetch rejects: catch: setError(err.message or 'Unbekannter Fehler');
\* finally setLoading(false)
UFetchThrows ==
    /\ upc = "awaiting"
    /\ uerror' \in {"Failed to fetch", "Unbekannter Fehler"}
    /\ uevent' = [kind |-> "threw"]
    /\ uloading' = FALSE
    /\ upc' = "ready"
    /\ UNCHANGED <<uname, uphotos, upreviews, usent, usteps>>
    /\ UNCHANGED uothers

UNext ==
    \/ USetName
    \/ UPhotoSelect
    \/ UPhotoDrop
    \/ URemovePhoto
    \/ UGenerate
    \/ UFetch
    \/ UResponseOk
    \/ UResponseError
    \/ UFetchThrows

InitForm == UInit /\ QIdle /\ PIdle /\ HIdle /\ LIdle /\ RIdle
    /\ GIdle /\ ZIdle /\ BIdle
    /\ MIdle
SpecForm == InitForm /\ [][UNext]_vars

\* A request that was sent is settled: the server answers or the fetch
\* rejects; the synchronous part of handleGenerate runs on to the fetch.
SpecFormFair ==
    /\ SpecForm
    /\ WF_vars(UFetch)
    /\ WF_vars(UResponseOk \/ UResponseError \/ UFetchThrows)

\* ------------------------------------------------------------------------
\* Claims about the quantizer
\* ------------------------------------------------------------------------
Range(f) == { f[i] : i \in DOMAIN f }
IsColor(c) == c \in (0..255) \X (0..255) \X (0..255)

\* the k-th output pixel of the 3-channel raster
OutPixel(k) == <<mappedData[3 * k - 2], mappedData[3 * k - 1], mappedData[3 * k]>>

\* C1: for every non-empty image, every K >= 1 and every draw of the K
\* initial centroids, the centroid set has K well-formed colours throughout
\* the iterations, quantizeColors returns exactly K colours and the hex
\* palette has exactly K entries, also when K exceeds the number of distinct
\* sample colours.
C1_PaletteHasExactlyK ==
    /\ qpc = "iterate" =>
         /\ Len(centroids) = numColors
         /\ \A i \in 1..Len(centroids) : IsColor(centroids[i])
    /\ qpc \in {"remap", "hex", "done"} =>
         /\ Len(palette) = numColors
         /\ \A i \in 1..Len(palette) : IsColor(palette[i])
    /\ qpc = "done" => Len(hexPalette) = numColors

\* C1 witness: a finished run with more colours requested than the sample
\* holds, whose palette repeats a colour.
C1_Witness ==
    /\ qpc = "done"
    /\ numColors > Cardinality(Range(sampled))
    /\ Cardinality(Range(palette)) < Len(palette)
    /\ Len(hexPalette) = numColors

\* C2: every pixel of the output raster equals one of the K palette entries,
\* and the output raster has as many pixels as the input raster.
C2_OutputPixelsInPalette ==
    qpc \in {"hex", "done"} =>
        /\ Len(mappedData) = 3 * Len(pixels)
        /\ Len(pixels) * info.channels = Len(data)
        /\ Len(pixels) = info.width * info.height
        /\ \A k \in 1..Len(pixels) :
             \E j \in 1..numColors : OutPixel(k) = palette[j]

\* C2 witness: a finished run on several pixels in which some pixel was
\* remapped to a colour other than its own.
C2_Witness ==
    /\ qpc = "done"
    /\ Len(pixels) > 1
    /\ Len(mappedData) = 3 * Len(pixels)
    /\ \E k \in 1..Len(pixels) : OutPixel(k) # pixels[k]


\* ------------------------------------------------------------------------
\* Claims about the palette orderer
\* ------------------------------------------------------------------------
\* the keys of the frequency mapping and the count of a key
Observed == { colorCounts[i][1] : i \in 1..Len(colorCounts) }
CountOf(hex) ==
    LET i == CHOOSE k \in 1..Len(colorCounts) : colorCounts[k][1] = hex
    IN  colorCounts[i][2]

\* the number of sampled pixels with colour int c
SampledCount(c) ==
    LET step == ScanStep(image.width, image.height)
    IN  Cardinality({ k \in 1..Len(image.px) :
                        /\ image.px[k] = c
                        /\ ((k - 1) % image.width) % step = 0
                        /\ ((k - 1) \div image.width) % step = 0 })

\* what each input colour is as a hex string, written out by hand
HexOfPColor(c) ==
    IF c = RGBA(255, 0, 0, 255) THEN <<"#", "f", "f", "0", "0", "0", "0">>
    ELSE IF c = RGBA(10, 160, 5, 255) THEN <<"#", "0", "a", "a", "0", "0", "5">>
    ELSE <<"#", "0", "0", "0", "0", "0", "9">>

\* C4: extractPalette returns exactly N entries, whatever the number of
\* distinct sampled colours.
C4_ResultHasExactlyN == ppc = "done" => Len(sorted) = pNumColors

\* C4 witness: a finished call in which more distinct colours were sampled
\* than were requested, so the list was cut.
C4_Witness ==
    /\ ppc = "done"
    /\ pNumColors >= 1
    /\ Len(colorCounts) > pNumColors
    /\ Len(sorted) = pNumColors

\* C5: the observed colours of the result are in non-increasing order of
\* their sampled count, entry 0 has the maximal sampled count, and with no
\* colour observed entry 0 is the first fallback colour.
C5_DescendingByCount ==
    ppc = "done" =>
        LET d == Min(Len(colorCounts), pNumColors)
        IN  /\ \A i \in 1..d : sorted[i] \in Observed
            /\ \A i \in 1..d : \A j \in 1..d :
                 i < j => CountOf(sorted[i]) >= CountOf(sorted[j])
            /\ (pNumColors >= 1 /\ colorCounts # <<>>) =>
                 \A c \in PColors :
                   SampledCount(c) <= CountOf(sorted[1])
            /\ (pNumColors >= 1 /\ colorCounts = <<>>) =>
                 sorted[1] = Defaults[1]

\* C5 witness: the colour met first by the scan is less frequent than the
\* colour met second, which ends up at entry 0.
C5_Witness ==
    /\ ppc = "done"
    /\ pNumColors >= 2
    /\ Len(colorCounts) >= 2
    /\ colorCounts[1][2] < colorCounts[2][2]
    /\ sorted[1] = colorCounts[2][1]
    /\ sorted[2] = colorCounts[1][1]

\* C6: with d < N distinct colours observed, entries 0..d-1 are exactly the
\* observed colours and every entry at index i >= d is fallback[i mod 8],
\* so the fallback colours follow in cyclic order and repeat beyond eight;
\* for a 1x1 image entry 0 is the colour of its pixel.
C6_PaddedWithFallback ==
    (ppc = "done" /\ Len(colorCounts) < pNumColors) =>
        LET d == Len(colorCounts)
        IN  /\ { sorted[i] : i \in 1..d } = Observed
            /\ Observed = { HexOfPColor(c) : c \in Range(image.px) }
            /\ \A i \in (d + 1)..pNumColors :
                 sorted[i] = Defaults[((i - 1) % 8) + 1]
            /\ (image.width = 1 /\ image.height = 1) =>
                 sorted[1] = HexOfPColor(image.px[1])

\* C6 witness: eight colours requested from a 1x1 image.
C6_Witness ==
    /\ ppc = "done"
    /\ image.width = 1 /\ image.height = 1
    /\ pNumColors = 8
    /\ sorted[1] = <<"#", "0", "a", "a", "0", "0", "5">>
    /\ \A i \in 2..8 : sorted[i] = Defaults[i]

IsLowerHexColor(str) ==
    /\ Len(str) = 7
    /\ str[1] = "#"
    /\ \A k \in 2..7 : str[k] \in Range(HexDigits)

\* C7: every entry of the palette extractPalette returns, padded fallback
\* entries included, is '#' followed by six lowercase hexadecimal digits.
C7_EntriesAreLowercaseHex ==
    ppc = "done" => \A i \in 1..Len(sorted) : IsLowerHexColor(sorted[i])


\* the row-major ranks of the pixels the strided scan visits
ScanRanks ==
    LET step == IF image.width * image.height >= 4000 THEN 2 ELSE 1
    IN  { k \in 1..Len(image.px) :
            /\ ((k - 1) % image.width) % step = 0
            /\ ((k - 1) \div image.width) % step = 0 }

RanksOf(c) == { k \in ScanRanks : image.px[k] = c }

\* colour c1 precedes colour c2: it was visited more often, or as often and
\* first
Precedes(c1, c2) ==
    \/ Cardinality(RanksOf(c1)) > Cardinality(RanksOf(c2))
    \/ /\ Cardinality(RanksOf(c1)) = Cardinality(RanksOf(c2))
       /\ \E k \in RanksOf(c1) : \A m \in RanksOf(c2) : k < m

PositionsOf(c) == { i \in 1..Len(sorted) : sorted[i] = HexOfPColor(c) }

\* C26: the result of extractPalette is fixed by the bitmap and N: the scan
\* visits pixel (0,0) first, the observed part of the result lists each
\* visited colour at most once, by descending count and among equal counts
\* in the order of their first visit, and a colour that was cut off
\* precedes none that was kept.
C26_TiesInScanOrder ==
    ppc = "done" =>
        LET d == Min(Len(colorCounts), pNumColors)
            seen == { c \in PColors : RanksOf(c) # {} }
            kept == { c \in seen : \E i \in 1..d : sorted[i] = HexOfPColor(c) }
        IN  /\ image.px # <<>> => 1 \in ScanRanks
            /\ image.px # <<>> => colorCounts[1][1] = HexOfPColor(image.px[1])
            /\ Cardinality(seen) = Len(colorCounts)
            /\ Cardinality(kept) = d
            /\ \A c1 \in kept : \A c2 \in kept :
                 \A i \in PositionsOf(c1) : \A j \in PositionsOf(c2) :
                    (i < j /\ j <= d) => Precedes(c1, c2)
            /\ \A c1 \in kept : \A c2 \in seen \ kept : Precedes(c1, c2)

\* three pixels of three different colours, each counted once: the result
\* lists them in the order of the scan
C26_Witness ==
    /\ ppc = "done"
    /\ Len(image.px) = 3
    /\ pNumColors = 3
    /\ Len(colorCounts) = 3
    /\ \A i \in 1..3 : colorCounts[i][2] = 1
    /\ \A i \in 1..3 : sorted[i] = HexOfPColor(image.px[i])

\* ------------------------------------------------------------------------
\* Claims about hex formatting
\* ------------------------------------------------------------------------
\* C8: parsing rgbToHex(r, g, b) as the page assembler does, two hex digits
\* per channel from character positions 1-2, 3-4 and 5-6, gives (r, g, b).
C8_HexRoundTrip == hpc = "parsed" => hparsed = hrgb

\* C8 witness: a parsed colour with a channel below 16, which needs the zero
\* padding, and a channel whose digits are letters.
C8_Witness ==
    /\ hpc = "parsed"
    /\ hrgb[1] \in 1..15
    /\ hrgb[3] = 255
    /\ Len(hhex) = 7
    /\ hparsed = hrgb


\* ------------------------------------------------------------------------
\* Claims about the line-art extractor
\* ------------------------------------------------------------------------
OnBorder(k) ==
    LET x == (k - 1) % lw
        y == (k - 1) \div lw
    IN  x = 0 \/ y = 0 \/ x = lw - 1 \/ y = lh - 1

\* C9: for every image size, widths and heights below 3 included, every
\* pixel of row 0, the last row, column 0 and the last column has edge value
\* 0 and is 255 in R, G, B and alpha of the inverted output.
C9_BorderIsWhite ==
    /\ lpc \in {"invert", "done"} =>
         /\ Len(edgeData) = lw * lh
         /\ \A k \in 1..(lw * lh) : OnBorder(k) => edgeData[k] = 0
    /\ lpc = "done" =>
         /\ Len(outputData) = 4 * lw * lh
         /\ \A k \in 1..(lw * lh) : OnBorder(k) =>
              \A c \in 1..4 : outputData[4 * (k - 1) + c] = 255

\* C9 witness: a finished picture with an edge at an interior pixel next to
\* column 0 whose border is white all the same.
C9_Witness ==
    /\ lpc = "done"
    /\ lw >= 3 /\ lh >= 3
    /\ edgeData[lw + 2] > 0
    /\ ldata[4 * lw + 1] # ldata[4 * lw + 9]
    /\ \A k \in 1..(lw * lh) : OnBorder(k) => outputData[4 * (k - 1) + 1] = 255

LIsUniform ==
    \A k \in 1..(lw * lh) : \A c \in 1..4 : limg[4 * (k - 1) + c] = limg[c]

\* C10: for a picture whose pixels all have the same colour the edge value
\* is 0 at every pixel and every output pixel is 255 in R, G and B.
C10_UniformIsWhite ==
    /\ (lpc \in {"invert", "done"} /\ LIsUniform) =>
         \A k \in 1..(lw * lh) : edgeData[k] = 0
    /\ (lpc = "done" /\ LIsUniform) =>
         \A k \in 1..(lw * lh) : \A c \in 1..3 : outputData[4 * (k - 1) + c] = 255

\* C10 witness: a finished uniform gray (128,128,128) picture with interior
\* pixels.
C10_Witness ==
    /\ lpc = "done"
    /\ LIsUniform
    /\ lw >= 3 /\ lh >= 3
    /\ limg[1] = 128 /\ limg[2] = 128 /\ limg[3] = 128
    /\ ldata[1] = 128
    /\ \A k \in 1..(4 * lw * lh) : outputData[k] = 255


\* the squared gradient magnitude gx^2 + gy^2 at pixel k of the gray raster
SquaredMagnitudeAt(k) ==
    LET x == (k - 1) % lw
        y == (k - 1) \div lw
        gx == Gradient(ldata, lw, x, y, sobelX)
        gy == Gradient(ldata, lw, x, y, sobelY)
    IN  gx * gx + gy * gy

\* e is min(255, 3 * sqrt(s)) with its fraction dropped
IsAmplifiedMagnitude(e, s) ==
    /\ e \in 0..255
    /\ e * e <= 9 * s
    /\ (e = 255 \/ (e + 1) * (e + 1) > 9 * s)

EdgeRule(k) ==
    LET s == SquaredMagnitudeAt(k)
    IN  /\ s <= 900 => edgeData[k] = 0
        /\ s > 900 => IsAmplifiedMagnitude(edgeData[k], s)
        /\ edgeData[k] \in 0..255

\* C11 (as stated): at every interior pixel the edge value is 0 when
\* gx^2 + gy^2 <= 900 and otherwise min(255, 3 * magnitude) as stored in
\* eight bits; it is always in 0..255 and never in 1..90.
C11_EdgeNeverUpTo90 ==
    lpc \in {"invert", "done"} =>
        \A k \in 1..(lw * lh) :
            ~OnBorder(k) => EdgeRule(k) /\ edgeData[k] \notin 1..90

\* C11 (amended): at every interior pixel the edge value is 0 when
\* gx^2 + gy^2 <= 900 and otherwise min(255, 3 * magnitude) with the fraction
\* dropped by the eight-bit store; it is always in 0..255 and never in
\* 1..89, and it is 90 for 900 < gx^2 + gy^2 <= 920.
C11_EdgeNeverBelow90 ==
    lpc \in {"invert", "done"} =>
        \A k \in 1..(lw * lh) :
            ~OnBorder(k) =>
                /\ EdgeRule(k)
                /\ edgeData[k] \notin 1..89
                /\ SquaredMagnitudeAt(k) \in 901..920 => edgeData[k] = 90

\* the interior pixel of a 3 x 3 picture just above the threshold: gx = 30,
\* gy = 2 or the like, and the stored value is 90
C11_Witness ==
    /\ lpc = "done"
    /\ lw = 3 /\ lh = 3
    /\ SquaredMagnitudeAt(5) \in 901..920
    /\ edgeData[5] = 90
    /\ outputData[17] = 165

\* ------------------------------------------------------------------------
\* Claims about the generate route
\* ------------------------------------------------------------------------
\* C3: the palette the server-side photoToPaintByNumbers returns has exactly
\* the requested number of entries, here the 12 the generate route asks for.
C3_PaletteHasRequestedCount ==
    \A i \in 1..Len(rpages) :
        rpages[i].type = "paint-by-numbers" =>
            Len(rpages[i].colorPalette) = RequestedColors


\* ------------------------------------------------------------------------
\* Claims about the grayscale conversion
\* ------------------------------------------------------------------------
\* C12: grayscale conversion is idempotent: converting an already converted
\* raster leaves every sample unchanged.
C12_GrayscaleIdempotent ==
    gpc = "twice" => gtwice = gonce

\* a coloured pixel that the first conversion changed and the second did not
C12_Witness ==
    /\ gpc = "twice"
    /\ graw[1] # graw[2]
    /\ gonce # graw
    /\ gonce[1] = gonce[2] /\ gonce[2] = gonce[3] /\ gonce[4] = graw[4]
    /\ gtwice = gonce

\* ------------------------------------------------------------------------
\* Claims about the resize step
\* ------------------------------------------------------------------------
ZLonger == Max(zimg[1], zimg[2])
ZShorter == Min(zimg[1], zimg[2])
ZLongerOut == IF zimg[1] >= zimg[2] THEN zw ELSE zh
ZShorterOut == IF zimg[1] >= zimg[2] THEN zh ELSE zw

ZBounded ==
    /\ Max(zw, zh) <= 800
    /\ (zimg[1] <= 800 /\ zimg[2] <= 800) => (zw = zimg[1] /\ zh = zimg[2])
    /\ ZLonger > 800 => ZLongerOut = 800

\* C13 (as stated): the resize step gives max(w', h') <= 800, leaves the
\* dimensions unchanged when both are at most 800, and otherwise makes the
\* longer side exactly 800 and the shorter side round(shorter * 800 / longer).
C13_ShorterIsRounded ==
    zpc = "sized" =>
        /\ ZBounded
        /\ ZLonger > 800 => ZShorterOut = MathRound(ZShorter * 800, ZLonger)

\* C13 (amended): the resize step gives max(w', h') <= 800, leaves the
\* dimensions unchanged when both are at most 800, and otherwise makes the
\* longer side exactly 800 and the shorter side an integer within half a
\* pixel of shorter * 800 / longer.
C13_ShorterWithinHalfPixel ==
    zpc = "sized" =>
        /\ ZBounded
        /\ ZLonger > 800 =>
             LET diff == 2 * (ZShorterOut * ZLonger - 800 * ZShorter)
             IN  diff <= ZLonger /\ -diff <= ZLonger

\* a 1856 x 145 picture: 145 * 800 / 1856 = 62.5 and the height becomes 62
C13_Witness ==
    /\ zpc = "sized"
    /\ zimg = <<1856, 145>>
    /\ zw = 800
    /\ zh = 62

\* C24: for every picture of at least 1 x 1 the resize step yields a width
\* and a height of at least 1.
C24_SidesAtLeastOne ==
    zpc = "sized" => (zw >= 1 /\ zh >= 1)

\* ------------------------------------------------------------------------
\* Claims about error handling
\* ------------------------------------------------------------------------
\* C14: when an image cannot be added to the document the failure is
\* reported to the caller as an error; no page gets placeholder content in
\* place of the failed image.
C14_NoPlaceholderContent ==
    bpc = "returned" =>
        /\ \A k \in 1..Len(bpages) : bpages[k].image.valid
        /\ \A k \in 1..Len(bdoc) :
             bdoc[k].kind = "page" =>
                 bdoc[k].embedded /\ bdoc[k].text # PlaceholderText

\* the request passes the two checks of the route
RAccepted == rname # "" /\ Len(rphotos) \in 1..PhotoLimit

RReadable == {k \in 1..Len(rphotos) : rphotos[k] = "image"}

\* the kinds of page the route makes of one photo
RMade ==
    IF rtype = "both" THEN {"coloring", "paint-by-numbers"}
    ELSE IF rtype \in {"coloring", "paint-by-numbers"} THEN {rtype}
    ELSE {}

\* C15: in a batch a decode failure on one photo is fatal only for that
\* photo: the route still answers with the book, which holds the pages of
\* every photo that could be read.
C15_BatchSurvivesOneFailure ==
    (rpc = "responded" /\ RAccepted /\ RReadable # {}) =>
        /\ rstatus = 200
        /\ \A k \in RReadable : \A made \in RMade :
             \E p \in 1..Len(rdoc) :
                 /\ rdoc[p].kind = "page"
                 /\ rdoc[p].image.photo = k - 1
                 /\ rdoc[p].image.made = made

\* ------------------------------------------------------------------------
\* Claims about the order of the pages
\* ------------------------------------------------------------------------
\* the images of the page list the claim describes for n photos: upload
\* order, and for "both" the coloring page of a photo before its
\* paint-by-numbers page
ExpectedImages(n) ==
    IF rtype = "both"
    THEN [i \in 1..(2 * n) |->
            [photo |-> (i - 1) \div 2,
             made |-> IF i % 2 = 1 THEN "coloring" ELSE "paint-by-numbers",
             valid |-> TRUE]]
    ELSE IF rtype \in {"coloring", "paint-by-numbers"}
    THEN [i \in 1..n |-> [photo |-> i - 1, made |-> rtype, valid |-> TRUE]]
    ELSE <<>>

\* C16: the document holds, between one cover and one back cover, exactly
\* one page per entry of the page list, in the order of the list, entry i
\* (0-based) on the page numbered i + 1; and the route builds the list in
\* upload order, a photo's coloring page before its paint-by-numbers page.
C16_PagesInUploadOrder ==
    /\ Len(rpages) <= Len(ExpectedImages(Len(rphotos)))
    /\ \A i \in 1..Len(rpages) :
         /\ rpages[i].image = ExpectedImages(Len(rphotos))[i]
         /\ rpages[i].type = rpages[i].image.made
    /\ rstatus = 200 =>
         /\ Len(rpages) = Len(ExpectedImages(Len(rphotos)))
         /\ Len(rdoc) = Len(rpages) + 2
         /\ rdoc[1].kind = "cover"
         /\ rdoc[Len(rdoc)].kind = "back"
         /\ \A i \in 1..Len(rpages) :
              /\ rdoc[i + 1].kind = "page"
              /\ rdoc[i + 1].number = i
              /\ rdoc[i + 1].image = rpages[i].image
              /\ rdoc[i + 1].embedded

\* two photos and type "both": cover, four pages numbered 1 to 4, back
C16_Witness ==
    /\ rstatus = 200
    /\ rtype = "both"
    /\ Len(rphotos) = 2
    /\ Len(rdoc) = 6
    /\ rdoc[2].image = [photo |-> 0, made |-> "coloring", valid |-> TRUE]
    /\ rdoc[3].image = [photo |-> 0, made |-> "paint-by-numbers", valid |-> TRUE]
    /\ rdoc[4].image.photo = 1
    /\ rdoc[5].number = 4

\* ------------------------------------------------------------------------
\* Claims about the checks of the generate route
\* ------------------------------------------------------------------------
\* C18: a request with an empty name, with no photos or with more than 20
\* photos is answered with 400 before any photo is processed and before any
\* document is generated; a request with a name and 1 to 20 photos is not.
C18_InvalidRequestsGet400 ==
    /\ ~RAccepted =>
         /\ rpc \in {"validate", "responded"}
         /\ rpc = "responded" => rstatus = 400
         /\ ri = 0 /\ rpages = <<>> /\ rdoc = <<>>
    /\ RAccepted => rstatus # 400

\* 21 photos under a name: the answer is 400 and nothing was processed
C18_Witness ==
    /\ rpc = "responded"
    /\ rname = "Mia"
    /\ Len(rphotos) = PhotoLimit + 1
    /\ rstatus = 400
    /\ rpages = <<>>
    /\ rdoc = <<>>

\* ------------------------------------------------------------------------
\* Claims about the four-colour picture
\* ------------------------------------------------------------------------
\* the palette is the four colours and every pixel is written as itself
FourColoursKept ==
    /\ Range(palette) = FourColours
    /\ \A k \in 1..Len(pixels) : OutPixel(k) = pixels[k]

IsLowestNearest(i, pixel, pal) ==
    /\ i \in 1..Len(pal)
    /\ \A j \in 1..Len(pal) :
         /\ DistSq(pixel, pal[i]) <= DistSq(pixel, pal[j])
         /\ j < i => DistSq(pixel, pal[j]) > DistSq(pixel, pal[i])

\* the sampled pixels assigned to centroid i of cs, as indices
AssignedTo(i, cs) ==
    {k \in 1..Len(sampled) : IsLowestNearest(i, sampled[k], cs)}

\* C19: findNearestColor returns an index with no strictly nearer entry and
\* the lowest such index on ties, both in the cluster assignment of every
\* iteration and in the final remap.
C19_LowestNearestIndex ==
    /\ qpc = "iterate" =>
         \A k \in 1..Len(sampled) :
              IsLowestNearest(findNearestColor(sampled[k], centroids),
                              sampled[k], centroids)
    /\ qpc \in {"hex", "done"} =>
         \A k \in 1..Len(pixels) :
            /\ IsLowestNearest(findNearestColor(pixels[k], palette),
                               pixels[k], palette)
            /\ OutPixel(k) = palette[findNearestColor(pixels[k], palette)]

\* a pixel at the same distance from two centroids of different index, none
\* nearer: the first of them is returned
C19_Witness ==
    /\ qpc = "iterate"
    /\ \E k \in 1..Len(sampled) : \E i, j \in 1..numColors :
         /\ i < j
         /\ findNearestColor(sampled[k], centroids) = i
         /\ DistSq(sampled[k], centroids[i]) = DistSq(sampled[k], centroids[j])
         /\ DistSq(sampled[k], centroids[i]) > 0

\* the rounded mean of channel c over the sampled pixels with indices in S
MeanOf(S, c) == MathRound(SumOver(S, [k \in S |-> sampled[k][c]]),
                          Cardinality(S))

\* C20: in every iteration a centroid to which no sampled pixel was assigned
\* keeps exactly its previous value, and every other centroid is replaced
\* by the rounded mean of its pixels.
C20_EmptyClusterKeepsCentroid ==
    [][(qpc = "iterate" /\ iter' = iter + 1) =>
          /\ Len(centroids') = numColors
          /\ \A i \in 1..numColors :
               LET S == AssignedTo(i, centroids)
               IN  IF S = {} THEN centroids'[i] = centroids[i]
                   ELSE centroids'[i] = <<MeanOf(S, 1), MeanOf(S, 2),
                                          MeanOf(S, 3)>>]_vars

\* after the first iteration: a centroid without pixels still has its seed
\* value and another one has moved to a mean
C20_Witness ==
    /\ qpc = "iterate"
    /\ iter = 1
    /\ \E i, j \in 1..numColors :
         /\ AssignedTo(i, seeds) = {}
         /\ centroids[i] = seeds[i]
         /\ AssignedTo(j, seeds) # {}
         /\ centroids[j] # seeds[j]
         /\ centroids[j] \notin Range(sampled)

\* v is the integer nearest to total / n, the upper one when total / n
\* lies halfway between two integers
IsNearestInteger(v, total, n) ==
    /\ v \in Int
    /\ 2 * total - n < 2 * n * v
    /\ 2 * n * v <= 2 * total + n

ChannelTotal(S, c) == SumOver(S, [k \in S |-> sampled[k][c]])

\* C21: after every iteration each centroid with at least one assigned pixel
\* is, per channel, the integer nearest to the arithmetic mean of its
\* assigned pixels, and at every step from the seeding to the final palette
\* every channel of every centroid is an integer in 0..255.
C21_CentroidsAreRoundedMeans ==
    /\ [](/\ \A i \in DOMAIN centroids : IsColor(centroids[i])
          /\ \A i \in DOMAIN palette : IsColor(palette[i]))
    /\ [][(qpc = "iterate" /\ iter' = iter + 1) =>
            \A i \in 1..numColors :
               LET S == AssignedTo(i, centroids)
               IN  S # {} =>
                     \A c \in 1..3 :
                        IsNearestInteger(centroids'[i][c], ChannelTotal(S, c),
                                         Cardinality(S))]_vars

\* all four centroids were drawn as the same pixel: after the first
\* iteration the first one holds the mean of all four pixels, two channels
\* of it rounded up from an exact half (510 / 4) and one from 63.75
C21_Witness ==
    /\ qpc = "iterate"
    /\ iter = 1
    /\ Cardinality(AssignedTo(1, seeds)) = 4
    /\ centroids[1] = <<128, 64, 128>>

\* C22: quantizeColors returns after exactly 10 iterations: the iteration
\* count never passes 10; the return can be taken exactly when 10
\* iterations are done, also when an earlier iteration changed no centroid;
\* before that every step is a further iteration; and the palette is the
\* centroid list as the 10th iteration left it.
C22_ReturnsAfterTenIterations ==
    /\ [](/\ qpc = "iterate" =>
                (iter \in 0..10 /\ ((ENABLED QReturn) <=> iter = 10))
          /\ qpc \in {"remap", "hex", "done"} =>
                (iter = 10 /\ palette = centroids))
    /\ [][(qpc = "iterate" /\ iter < 10) =>
            (qpc' = "iterate" /\ iter' = iter + 1)]_vars
    /\ [][(qpc = "iterate" /\ iter = 10) =>
            (qpc' = "remap" /\ palette' = centroids /\ iter' = 10)]_vars

\* the four seeds were four different pixels, so no iteration changed a
\* centroid, and the function still returned only after the 10th
C22_Witness ==
    /\ qpc = "remap"
    /\ iter = 10
    /\ Cardinality(Range(seeds)) = 4
    /\ palette = seeds

\* C23 as stated: the sample handed to the centroid fitting never has more
\* than 10,000 pixels.
C23_SampleAtMostBound ==
    qpc = "seed" => Len(sampled) <= 10000

\* the stride as the claim states it
StrideOf(n) == n \div (IF n < 10000 THEN n ELSE 10000)

\* C23, amended: the sample is the pixels whose index is a multiple of the
\* stride, in order, so it has ceil(n / stride) pixels: all of them up to
\* the bound, and never as many as twice the bound.
C23_SampleBelowTwiceBound ==
    qpc = "seed" =>
        LET n == Len(pixels)
            stride == StrideOf(n)
        IN  /\ Len(sampled) = (n + stride - 1) \div stride
            /\ \A k \in 1..Len(sampled) :
                  sampled[k] = pixels[(k - 1) * stride + 1]
            /\ n <= 10000 => sampled = pixels
            /\ Len(sampled) < 2 * 10000

\* 19,999 pixels: the stride is 1 and all 19,999 pixels are sampled
C23_Witness ==
    /\ qpc = "seed"
    /\ Len(pixels) = 19999
    /\ Len(sampled) = 19999

\* the k-th pixel of a 3-channel raster
PixelAt(raster, k) == <<raster[3 * k - 2], raster[3 * k - 1], raster[3 * k]>>

\* C25: a pixel whose colour is a palette entry is remapped to that same
\* colour, and remapping the remapped raster with the same palette changes
\* no pixel, whether or not the palette has duplicate entries.
C25_RemapIdempotent ==
    /\ mpc \in {"once", "twice"} =>
         \A k \in 1..Len(mpixels) :
            mpixels[k] \in Range(mpalette) => PixelAt(monce, k) = mpixels[k]
    /\ mpc = "twice" => mtwice = monce

\* a palette with a duplicate entry, and a pixel outside the palette that
\* the first remap changed, at equal distance from two entries
C25_Witness ==
    /\ mpc = "twice"
    /\ mtwice = monce
    /\ \E i, j \in DOMAIN mpalette : i < j /\ mpalette[i] = mpalette[j]
    /\ \E k \in 1..Len(mpixels) :
         /\ mpixels[k] \notin Range(mpalette)
         /\ PixelAt(monce, k) # mpixels[k]
         /\ \E i, j \in DOMAIN mpalette :
              /\ mpalette[i] # mpalette[j]
              /\ DistSq(mpixels[k], mpalette[i]) = DistSq(mpixels[k], mpalette[j])

\* ------------------------------------------------------------------------
\* Claims about the upload form
\* ------------------------------------------------------------------------
\* the first n elements of a list
FirstN(lst, n) == [i \in 1..(IF Len(lst) < n THEN Len(lst) ELSE n) |-> lst[i]]

\* the preview list has the length and the order of the photo list
PreviewsFollowPhotos ==
    /\ Len(upreviews) = Len(uphotos)
    /\ \A i \in 1..Len(uphotos) : upreviews[i].blob = uphotos[i].id

\* C27: after any sequence of file-select, drag-and-drop and remove actions
\* the selection has at most 20 photos and the previews follow the photos,
\* and adding files by either route sets the selection to the first 20 of
\* the photos selected so far followed by the new files.
C27_AddKeepsSelection ==
    /\ [](Len(uphotos) <= 20 /\ PreviewsFollowPhotos)
    /\ [][(usteps' = usteps + 1 /\ uevent'.kind \in {"select", "drop"}) =>
            uphotos' = FirstN(uphotos \o uevent'.files, 20)]_vars

\* C28: a click on the button with a blank name or without photos sends no
\* request, sets an error message and leaves loading false; a request is
\* sent only while loading is true; when the sent request is settled
\* loading is false again, the error message being empty after a success
\* and set after an error answer or a rejected fetch; and loading, once
\* true, becomes false again.
C28_LoadingFollowsRequest ==
    /\ [][(usteps' = usteps + 1 /\ uevent'.kind = "generate"
             /\ (Trim(uname) = <<>> \/ Len(uphotos) = 0)) =>
            (usent' = usent /\ upc' = "ready" /\ uerror' # ""
               /\ ~uloading /\ ~uloading')]_vars
    /\ [][usent' # usent =>
            (uloading /\ uloading' /\ Trim(uname) # <<>>
               /\ Len(uphotos) > 0)]_vars
    /\ [][(upc = "awaiting" /\ upc' = "ready") =>
            /\ uloading /\ ~uloading'
            /\ uevent'.kind \in {"ok", "error", "threw"}
            /\ uevent'.kind = "ok" => uerror' = ""
            /\ uevent'.kind \in {"error", "threw"} => uerror' # ""]_vars
    /\ (uloading ~> ~uloading)

\* two requests were sent and the second one has succeeded: no message is
\* shown and loading is false
C28_Witness ==
    /\ upc = "ready"
    /\ uevent.kind = "ok"
    /\ Len(usent) = 2
    /\ uerror = ""
    /\ ~uloading

=============================================================================
